---- MODULE Spec2Model ----
(***************************************************************************)
(* Filesystem-backed lab resources (src/lab): the generic resource         *)
(* persistence layer of BaseLabResource with its migration from            *)
(* timestamped snapshots to a single index.json, and the Experiment's      *)
(* derived jobs.json index over the Job documents.                         *)
(*                                                                         *)
(* Three specifications share the module:                                  *)
(*   SpecRes    one resource directory, whole operations of the base class *)
(*   SpecCrash  one resource directory, migration taken step by step and   *)
(*              possibly abandoned between two steps                       *)
(*   SpecExp    one experiment directory and the job directories           *)
(***************************************************************************)
EXTENDS Integers, Sequences, FiniteSets, TLC

\* ------------------------------------------------------------------------
\* Bounds of the model
\* ------------------------------------------------------------------------
\* number of distinct snapshot timestamps a resource directory may hold
MaxSnap == 2

\* number of migrations that may be abandoned between two of their steps
MaxCrash == 2

\* number of job directories under the jobs root
MaxJobs == 2

\* snapshot timestamps: index-<t>.json for t in TS, ordered as datetimes
TS == 1..MaxSnap

\* ------------------------------------------------------------------------
\* JSON values and file contents
\* ------------------------------------------------------------------------
\* a python value read from or written to a JSON file: a dict, or some
\* other JSON value (list, scalar)
Dict(d) == [t |-> "dict", d |-> d]

NotADict == [t |-> "list"]

isinstance_dict(v) == v.t = "dict"

\* the empty dict {}
EmptyDoc == [k \in {} |-> ""]

\* the value of an expression worked out once: the element of a singleton
The(S) == CHOOSE x \in S : TRUE

\* what a path holds: nothing, text that is not JSON, bytes that are not
\* UTF-8 text, or the JSON text of v
Absent == [kind |-> "absent"]

Garbage == [kind |-> "garbage"]

Undecodable == [kind |-> "bytes"]

\* json.dump(v, f): the file holds the JSON text of v
json_dump(v) == [kind |-> "json", val |-> v]

\* os.path.exists / os.path.isfile on a file path
path_exists(c) == c.kind # "absent"

\* open() + json.load() succeed: the file exists and parses
LoadOk(c) == c.kind = "json"

\* json.load(f) of a file that parses
json_load(c) == c.val

\* ------------------------------------------------------------------------
\* One resource directory
\* ------------------------------------------------------------------------
\* names of files inside a resource directory
FIndex == [f |-> "index.json"]

\* an index-*.json file whose middle part is no timestamp (index-foo.json)
FBad == [f |-> "index-foo.json"]

FSnap(t) == [f |-> "index-ts.json", ts |-> t]

\* content of latest.txt: no such file, a blank file, or a file name
PAbsent == [p |-> "absent"]

PEmpty == [p |-> "blank"]

PName(f) == [p |-> "name", file |-> f]

\* a directory that does not exist
NoDir ==
  [exists |-> FALSE, index |-> Absent, snaps |-> [t \in TS |-> Absent],
   bad |-> Absent, latest |-> PAbsent]

\* a directory just made by os.makedirs
EmptyDir == [NoDir EXCEPT !.exists = TRUE]

\* content of the file named f in directory d
FileAt(d, f) ==
  IF f = FIndex THEN d.index
  ELSE IF f = FBad THEN d.bad
  ELSE d.snaps[f.ts]

\* some filename starts with "index-" and ends with ".json"
has_timestamped_files(d) ==
  path_exists(d.bad) \/ \E t \in TS : path_exists(d.snaps[t])

\* a faulty latest_from_txt: the os.path.isfile test left out
latest_from_txt_unchecked(d) ==
  IF d.latest.p = "name" THEN d.latest ELSE PAbsent

\* the snapshot named in latest.txt, when latest.txt names an existing file
\* (labresource.py 160-171); None is modelled by PAbsent
latest_from_txt(d) ==
  IF d.latest.p = "name" /\ path_exists(FileAt(d, d.latest.file))
  THEN d.latest
  ELSE PAbsent

\* the parseable timestamps present (index-foo.json raises ValueError and
\* is skipped)
StampsPresent(d) == {t \in TS : path_exists(d.snaps[t])}

\* a faulty latest_by_timestamp: the comparison of line 181 reversed, so
\* the smallest timestamp wins
oldest_by_timestamp(d) ==
  IF StampsPresent(d) = {} THEN PAbsent
  ELSE PName(FSnap(CHOOSE t \in StampsPresent(d) :
                     \A u \in StampsPresent(d) : t <= u))

\* the file with the greatest timestamp (labresource.py 174-186)
latest_by_timestamp(d) ==
  IF StampsPresent(d) = {} THEN PAbsent
  ELSE PName(FSnap(CHOOSE t \in StampsPresent(d) :
                     \A u \in StampsPresent(d) : u <= t))

\* latest_file of _migrate_to_single_index
latest_file(d) ==
  IF latest_from_txt(d) # PAbsent THEN latest_from_txt(d)
  ELSE latest_by_timestamp(d)

\* migration returns before looking for a snapshot (labresource.py 139-154)
already_migrated(d) ==
  \/ ~d.exists
  \/ path_exists(d.index) /\ ~has_timestamped_files(d)

\* the directory after the clean-up loop and the removal of latest.txt
cleaned_up(d) ==
  [d EXCEPT !.snaps = [t \in TS |-> Absent], !.bad = Absent,
            !.latest = PAbsent]

\* _migrate_to_single_index run to its end: the directory it leaves
_migrate_to_single_index(d) ==
  IF already_migrated(d) THEN d
  ELSE IF latest_file(d) = PAbsent THEN d
  ELSE LET c == FileAt(d, latest_file(d).file) IN
       IF ~LoadOk(c) THEN d
       ELSE cleaned_up([d EXCEPT !.index = json_dump(json_load(c))])

\* get_json_data: the directory left, the value returned, the exception
\* raised. FileNotFoundError and JSONDecodeError are caught and give {}; the
\* UnicodeDecodeError of a file that is not UTF-8 text is not caught.
get_json_data(d) ==
  The({IF m.index = Undecodable
       THEN [dir |-> m, ret |-> [t |-> "none"], exc |-> "UnicodeDecodeError"]
       ELSE [dir |-> m,
             ret |-> IF LoadOk(m.index) THEN json_load(m.index)
                     ELSE Dict(EmptyDoc),
             exc |-> "none"] :
       m \in {_migrate_to_single_index(d)}})

\* a faulty _set_json_data: the isinstance test left out
_set_json_data_unchecked(d, json_data) ==
  LET m == _migrate_to_single_index(d) IN
  IF ~m.exists
  THEN [dir |-> m, exc |-> "FileNotFoundError"]
  ELSE [dir |-> [m EXCEPT !.index = json_dump(json_data)], exc |-> "none"]

\* a faulty _set_json_data: the call of _migrate_to_single_index left out
_set_json_data_unmigrated(d, json_data) ==
  IF ~isinstance_dict(json_data)
  THEN [dir |-> d, exc |-> "TypeError"]
  ELSE IF ~d.exists
  THEN [dir |-> d, exc |-> "FileNotFoundError"]
  ELSE [dir |-> [d EXCEPT !.index = json_dump(json_data)], exc |-> "none"]

\* _set_json_data(json_data)
_set_json_data(d, json_data) ==
  IF ~isinstance_dict(json_data)
  THEN [dir |-> d, exc |-> "TypeError"]
  ELSE LET m == _migrate_to_single_index(d) IN
       IF ~m.exists
       THEN [dir |-> m, exc |-> "FileNotFoundError"]
       ELSE [dir |-> [m EXCEPT !.index = json_dump(json_data)],
             exc |-> "none"]

\* the id of the one resource of SpecRes, and its documents
ResId == "r1"

\* BaseLabResource._default_json
_default_json(id) == [id |-> id]

\* documents callers write
WriteDocs == {[id |-> ResId, note |-> "a"], [id |-> ResId, note |-> "b"]}

\* the document a legacy writer left in snapshot t
SnapDoc(t) == [id |-> ResId, rev |-> t]

\* a faulty _initialize: the test for an existing index.json left out
_initialize_overwriting(d, id) ==
  [dir |-> [d EXCEPT !.exists = TRUE,
                     !.index = json_dump(Dict(_default_json(id)))],
   exc |-> "none"]

\* _initialize of BaseLabResource.create: makedirs, then the default document
\* unless index.json exists
_initialize(d, id) ==
  LET made == [d EXCEPT !.exists = TRUE] IN
  IF path_exists(made.index)
  THEN [dir |-> made, exc |-> "FileExistsError"]
  ELSE [dir |-> [made EXCEPT !.index = json_dump(Dict(_default_json(id)))],
        exc |-> "none"]

\* a faulty get: the default document is not written
get_not_persisting(d, id) ==
  IF ~d.exists
  THEN [dir |-> d, exc |-> "FileNotFoundError"]
  ELSE [dir |-> d, exc |-> "none"]

\* a faulty get: the directory is made instead of being required
get_making_dir(d, id) ==
  IF ~path_exists(d.index)
  THEN [dir |-> [d EXCEPT !.exists = TRUE,
                          !.index = json_dump(Dict(_default_json(id)))],
        exc |-> "none"]
  ELSE [dir |-> d, exc |-> "none"]

\* BaseLabResource.get
get(d, id) ==
  IF ~d.exists
  THEN [dir |-> d, exc |-> "FileNotFoundError"]
  ELSE IF ~path_exists(d.index)
  THEN [dir |-> [d EXCEPT !.index = json_dump(Dict(_default_json(id)))],
        exc |-> "none"]
  ELSE [dir |-> d, exc |-> "none"]

\* a faulty delete: only index.json is removed
delete_index_only(d) == [d EXCEPT !.index = Absent]

\* BaseLabResource.delete: shutil.rmtree of the directory
delete(d) == IF d.exists THEN NoDir ELSE d

\* ------------------------------------------------------------------------
\* Jobs and the experiment's index of them
\* ------------------------------------------------------------------------
\* names of the job directories: the numeric names "1", "2", ...
JobIds == 1..MaxJobs

\* the experiment whose directory is modelled, and another experiment id
ExpId == "e1"

OtherExp == "e2"

\* dict.get(key, default)
dict_get(doc, key, default) == IF key \in DOMAIN doc THEN doc[key] ELSE default

\* doc[key] = value
dict_put(doc, key, value) ==
  [f \in DOMAIN doc \cup {key} |-> IF f = key THEN value ELSE doc[f]]

\* statement after statement: an exception of the first ends the method
and_then(r, F(_)) ==
  The({IF x.exc # "none" THEN x ELSE F(x.dir) : x \in {r}})

\* a job directory: a resource directory that may hold the log file
NoJobDir ==
  [exists |-> FALSE, index |-> Absent, snaps |-> [t \in TS |-> Absent],
   bad |-> Absent, latest |-> PAbsent, log |-> FALSE]

\* the text of a log file: the messages and the newlines written to it
LogText(s) == [kind |-> "text", s |-> s]

\* the default log path of TheJob, as Job._default_json stores it, and a path
\* outside the job directory that job_data.output_file_path may name
DefaultLog == "output.txt"

OverridePath == "over.txt"

\* a faulty Job._default_json: the job starts QUEUED
Job_default_json_queued(id) ==
  [id |-> id, experiment_id |-> "",
   job_data |-> [output_file_path |-> DefaultLog],
   status |-> "QUEUED", type |-> "REMOTE", progress |-> 0]

\* Job._default_json; output_file_path is the default log path
Job_default_json(id) ==
  [id |-> id, experiment_id |-> "",
   job_data |-> [output_file_path |-> DefaultLog],
   status |-> "NOT_STARTED", type |-> "REMOTE", progress |-> 0]

\* Job.create(id): _initialize with Job._default_json, whose get_log_path()
\* puts an empty log file into the directory
Job_create(d, id) ==
  LET made == [d EXCEPT !.exists = TRUE] IN
  IF path_exists(made.index)
  THEN [dir |-> made, exc |-> "FileExistsError"]
  ELSE [dir |-> [made EXCEPT !.index = json_dump(Dict(Job_default_json(id))),
                             !.log = TRUE],
        exc |-> "none"]

\* Job.get(id)
Job_get(d, id) ==
  IF ~d.exists
  THEN [dir |-> d, exc |-> "FileNotFoundError"]
  ELSE IF ~path_exists(d.index)
  THEN [dir |-> [d EXCEPT !.index = json_dump(Dict(Job_default_json(id))),
                          !.log = TRUE],
        exc |-> "none"]
  ELSE [dir |-> d, exc |-> "none"]

\* _update_json_data_field(key, value)
_update_json_data_field(d, key, value) ==
  The({IF r.exc # "none"
       THEN [dir |-> r.dir, exc |-> r.exc]
       ELSE IF ~isinstance_dict(r.ret)
       THEN [dir |-> r.dir, exc |-> "TypeError"]
       ELSE _set_json_data(r.dir, Dict(dict_put(r.ret.d, key, value))) :
       r \in {get_json_data(d)}})

\* a faulty update_job_data_field: job_data is made anew
update_job_data_field_replacing(d, key, value) ==
  The({IF r.exc # "none"
       THEN [dir |-> r.dir, exc |-> r.exc]
       ELSE IF ~isinstance_dict(r.ret)
       THEN [dir |-> r.dir, exc |-> "TypeError"]
       ELSE _set_json_data(r.dir,
              Dict(dict_put(r.ret.d, "job_data",
                            dict_put(EmptyDoc, key, value)))) :
       r \in {get_json_data(d)}})

\* Job.update_job_data_field(key, value)
update_job_data_field(d, key, value) ==
  The({IF r.exc # "none"
       THEN [dir |-> r.dir, exc |-> r.exc]
       ELSE IF ~isinstance_dict(r.ret)
       THEN [dir |-> r.dir, exc |-> "TypeError"]
       ELSE LET job_data == dict_get(r.ret.d, "job_data", EmptyDoc) IN
            _set_json_data(r.dir,
              Dict(dict_put(r.ret.d, "job_data",
                            dict_put(job_data, key, value)))) :
       r \in {get_json_data(d)}})

\* Job.set_experiment(experiment_id)
set_experiment(d, experiment_id) ==
  LET r == _update_json_data_field(d, "experiment_id", experiment_id) IN
  IF r.exc # "none" THEN r
  ELSE update_job_data_field(r.dir, "experiment_name", experiment_id)

\* Job.update_status(status)
update_status(d, status) == _update_json_data_field(d, "status", status)

\* a faulty Job.delete: the directory is removed, as the base class does
Job_delete_removing(d) == [dir |-> delete(d), exc |-> "none"]

\* Job.delete(): the job is marked, its directory stays
Job_delete(d) == update_status(d, "DELETED")

\* a python dict kept in insertion order: a sequence of key/value pairs
has_key(od, key) == \E i \in 1..Len(od) : od[i].k = key

\* results.setdefault(job_type, []).append(entry)
setdefault_append(od, key, entry) ==
  IF has_key(od, key)
  THEN [i \in 1..Len(od) |->
          IF od[i].k = key THEN [k |-> key, v |-> Append(od[i].v, entry)]
          ELSE od[i]]
  ELSE Append(od, [k |-> key, v |-> <<entry>>])

\* the loop of rebuild_jobs_index over the entries 1..n of the jobs root in
\* numeric order: the results so far, and whether the loop is still running
\* (a document that is no dict raises AttributeError out of the loop)
RECURSIVE scan_jobs(_, _, _)
scan_jobs(J, self_id, n) ==
  IF n = 0 THEN [ok |-> TRUE, results |-> <<>>]
  ELSE LET r == scan_jobs(J, self_id, n - 1) IN
       IF ~r.ok \/ ~J[n].exists \/ ~LoadOk(J[n].index) THEN r
       ELSE LET data == json_load(J[n].index) IN
            IF ~isinstance_dict(data) THEN [ok |-> FALSE, results |-> r.results]
            ELSE IF dict_get(data.d, "experiment_id", "") # self_id THEN r
            ELSE [ok |-> TRUE,
                  results |-> setdefault_append(
                    r.results, dict_get(data.d, "type", "UNKNOWN"), n)]

\* a faulty rebuild_jobs_index: the index is written also when it is empty
rebuild_jobs_index_unguarded(e, J, self_id) ==
  LET r == scan_jobs(J, self_id, MaxJobs) IN
  IF r.ok /\ e.exists
  THEN [e EXCEPT !.jobsjson = json_dump(Dict(r.results))]
  ELSE e

\* a faulty rebuild_jobs_index: results starts from what jobs.json holds
rebuild_jobs_index_merging(e, J, self_id) ==
  LET r == scan_jobs(J, self_id, MaxJobs)
      old == IF LoadOk(e.jobsjson) /\ isinstance_dict(json_load(e.jobsjson))
             THEN json_load(e.jobsjson).d ELSE <<>>
  IN IF r.ok /\ r.results # <<>> /\ e.exists
     THEN [e EXCEPT !.jobsjson = json_dump(Dict(old \o r.results))]
     ELSE e

\* Experiment.rebuild_jobs_index: the experiment directory it leaves
rebuild_jobs_index(e, J, self_id) ==
  LET r == scan_jobs(J, self_id, MaxJobs) IN
  IF r.ok /\ r.results # <<>> /\ e.exists
  THEN [e EXCEPT !.jobsjson = json_dump(Dict(r.results))]
  ELSE e

\* concatenation of the lists of an index, in key order
RECURSIVE extend_all(_)
extend_all(od) ==
  IF od = <<>> THEN <<>> ELSE od[1].v \o extend_all(Tail(od))

\* Experiment._get_all_jobs
_get_all_jobs(e) ==
  IF LoadOk(e.jobsjson) /\ isinstance_dict(json_load(e.jobsjson))
  THEN extend_all(json_load(e.jobsjson).d)
  ELSE <<>>

\* Experiment._get_jobs_of_type
_get_jobs_of_type(e, type) ==
  IF LoadOk(e.jobsjson) /\ isinstance_dict(json_load(e.jobsjson))
  THEN LET od == json_load(e.jobsjson).d IN
       IF has_key(od, type)
       THEN od[CHOOSE i \in 1..Len(od) : od[i].k = type].v
       ELSE <<>>
  ELSE <<>>

\* a faulty filter: a document without job_data passes
passes_filters_without_job_data(job_json, status) ==
  /\ ~(status # "" /\ dict_get(job_json, "status", "") # status)
  /\ ~(status = "" /\ dict_get(job_json, "status", "") = "DELETED")

\* the filters of get_jobs: the status asked for, no DELETED job unless asked
\* for, and the key job_data
passes_filters(job_json, status) ==
  /\ ~(status # "" /\ dict_get(job_json, "status", "") # status)
  /\ ~(status = "" /\ dict_get(job_json, "status", "") = "DELETED")
  /\ "job_data" \in DOMAIN job_json

\* the loop of get_jobs over job_list: Job.get and get_json_data of each
\* listed job (an exception of either skips the job), then the filters; a
\* document that is no dict raises AttributeError out of get_jobs
RECURSIVE collect_jobs(_, _, _)
collect_jobs(J, job_list, status) ==
  IF job_list = <<>> THEN [jobs |-> J, results |-> <<>>, exc |-> "none"]
  ELSE LET id == Head(job_list)
           g == Job_get(J[id], id)
       IN
       IF g.exc # "none" THEN collect_jobs(J, Tail(job_list), status)
       ELSE LET r == get_json_data(g.dir)
                J1 == [J EXCEPT ![id] = r.dir]
            IN
            IF r.exc # "none" THEN collect_jobs(J1, Tail(job_list), status)
            ELSE IF ~isinstance_dict(r.ret)
            THEN [jobs |-> J1, results |-> <<>>, exc |-> "AttributeError"]
            ELSE LET job_json == r.ret.d
                     rest == collect_jobs(J1, Tail(job_list), status)
                     kept == passes_filters(job_json, status)
                 IN [jobs |-> rest.jobs,
                     results |-> IF kept THEN <<job_json>> \o rest.results
                                 ELSE rest.results,
                     exc |-> rest.exc]

\* Experiment.get_jobs(type, status)
get_jobs(e, J, self_id, type, status) ==
  LET e1 == rebuild_jobs_index(e, J, self_id)
      job_list == IF type # "" THEN _get_jobs_of_type(e1, type)
                  ELSE _get_all_jobs(e1)
      c == collect_jobs(J, job_list, status)
  IN [exp |-> e1, jobs |-> c.jobs, ret |-> c.results, exc |-> c.exc]

\* an experiment directory: a resource directory that may hold jobs.json
NoExpDir ==
  [exists |-> FALSE, index |-> Absent, snaps |-> [t \in TS |-> Absent],
   bad |-> Absent, latest |-> PAbsent, jobsjson |-> Absent]

\* Experiment._default_json
Experiment_default_json(id) == [name |-> id, id |-> id, config |-> EmptyDoc]

\* Experiment.DEFAULT_JOBS_INDEX
DEFAULT_JOBS_INDEX == <<[k |-> "TRAIN", v |-> <<>>]>>

\* Experiment.create(id): BaseLabResource._initialize, then jobs.json
Experiment_create(e, id) ==
  LET made == [e EXCEPT !.exists = TRUE] IN
  IF path_exists(made.index)
  THEN [dir |-> made, exc |-> "FileExistsError"]
  ELSE [dir |-> [made EXCEPT
                   !.index = json_dump(Dict(Experiment_default_json(id))),
                   !.jobsjson = json_dump(Dict(DEFAULT_JOBS_INDEX))],
        exc |-> "none"]

\* a faulty delete_all_jobs: the first job that cannot be loaded ends the loop
RECURSIVE delete_all_jobs_stopping(_, _)
delete_all_jobs_stopping(J, all_jobs) ==
  IF all_jobs = <<>> THEN J
  ELSE LET id == Head(all_jobs)
           g == Job_get(J[id], id)
       IN
       IF g.exc # "none" THEN J
       ELSE delete_all_jobs_stopping([J EXCEPT ![id] = Job_delete(g.dir).dir],
                                     Tail(all_jobs))

\* Experiment.delete_all_jobs: Job.get(job_id).delete() of every listed
\* job, exceptions passed over
RECURSIVE delete_all_jobs(_, _)
delete_all_jobs(J, all_jobs) ==
  IF all_jobs = <<>> THEN J
  ELSE LET id == Head(all_jobs)
           g == Job_get(J[id], id)
       IN
       IF g.exc # "none" THEN delete_all_jobs(J, Tail(all_jobs))
       ELSE delete_all_jobs([J EXCEPT ![id] = Job_delete(g.dir).dir],
                            Tail(all_jobs))

\* Experiment.delete: <<job directories, experiment directory>> it leaves
Experiment_delete(e, J) ==
  [jobs |-> delete_all_jobs(J, _get_all_jobs(e)),
   exp |-> IF e.exists THEN NoExpDir ELSE e]

\* the names of the entries of the jobs root: str(job_id) of the job
\* directories, and "tmp" of entry 0, a directory whose name is no number
DecimalDigits == <<"1", "2", "3", "4", "5", "6", "7", "8", "9">>

entry_name(i) == IF i = 0 THEN "tmp" ELSE DecimalDigits[i]

\* entry.isdigit() and int(entry)
isdigit(entry) == \E n \in 1..Len(DecimalDigits) : DecimalDigits[n] = entry

int(entry) == CHOOSE n \in 1..Len(DecimalDigits) : DecimalDigits[n] = entry

\* a faulty largest_numeric_subdir: the number of entries of the jobs root
largest_numeric_subdir_counting(J) ==
  Cardinality({i \in DOMAIN J : J[i].exists})

\* largest_numeric_subdir of create_job: the loop over os.listdir
largest_numeric_subdir(J) ==
  LET job_ids == {int(entry_name(i)) :
                    i \in {e \in DOMAIN J :
                             isdigit(entry_name(e)) /\ J[e].exists}}
  IN IF job_ids = {} THEN 0
     ELSE CHOOSE job_id \in job_ids : \A other \in job_ids : other <= job_id

\* Experiment.create_job, for a new id the jobs root has room for
create_job(J, self_id) ==
  The({[jobs |-> [J EXCEPT ![new_job_id] = r.dir], exc |-> r.exc,
        ret |-> new_job_id] :
       new_job_id \in {largest_numeric_subdir(J) + 1},
       r \in {The({IF c.exc # "none" THEN c
                   ELSE set_experiment(c.dir, self_id) :
                   c \in {Job_create(J[largest_numeric_subdir(J) + 1],
                                     largest_numeric_subdir(J) + 1)}})}})

\* ------------------------------------------------------------------------
\* State
\* ------------------------------------------------------------------------
VARIABLES
  rootExists,  \* the root directory of the resource kind exists
  dir,         \* the resource directory of ResId
  last,        \* the last call: its name, argument, exception and result
  pre,         \* rootExists and dir as they were before the last call
  written,     \* the last _set_json_data not yet overwritten: the document
               \* written and the directory the call found
  mig,         \* SpecCrash: the migration in progress, its position and locals
  dir0,        \* SpecCrash: the directory before the first migration
  crashes,     \* SpecCrash: how many migrations were abandoned
  jobs,        \* SpecExp: the job directories under the jobs root
  exp,         \* SpecExp: the experiment directory with its jobs.json
  lab,         \* SpecJob: the Lab facade object, its _job
  callers,     \* SpecRace: the concurrent callers, their position and locals
  files,       \* SpecLog: the content of the log files of TheJob
  jobstat      \* SpecQueue: the job directories in the order they were made
               \* and in the order they were last changed, and the ones
               \* that hold an artifacts directory

resVars == <<rootExists, dir, last, pre, written>>

crashVars == <<mig, dir0, crashes>>

expVars == <<jobs, exp>>

sessVars == <<lab, callers>>

fsVars == <<files, jobstat>>

\* Lab() before init: _experiment is None (modelled by ""), _job is None
\* (modelled by 0); ready records that some init() has returned
NoLab == [experiment |-> "", job |-> 0, ready |-> FALSE]

\* the two concurrent callers, none of them inside a call
Callers == {"a", "b"}

NoCallers == [c \in Callers |-> [pc |-> "idle"]]

\* no job directory made yet
NoJobStat == [born |-> <<>>, changed |-> <<>>, artifacts |-> {}]

\* no log written yet, no file at the override path, no job directory made
InitFs ==
  /\ files = [p \in {DefaultLog, OverridePath} |->
                IF p = DefaultLog THEN LogText(<<>>) ELSE Absent]
  /\ jobstat = NoJobStat

\* what the calls on the single resource of SpecRes leave alone
notRes == <<crashVars, expVars, sessVars, fsVars>>

NoValue == [t |-> "none"]

NoWrite == [v |-> NoValue, from |-> NoDir]

NoCall == [op |-> "none", arg |-> NoValue, exc |-> "none", ret |-> NoValue,
           prev |-> "none"]

Called(op, arg, exc, ret) ==
  [op |-> op, arg |-> arg, exc |-> exc, ret |-> ret, prev |-> last.op]

\* directories a resource may be found in: written by this code, by the
\* snapshot-writing generation of it, or damaged
SnapContents(t) == {Absent, Garbage, json_dump(Dict(SnapDoc(t)))}

InitDirs ==
  {NoDir} \cup
  { [exists |-> TRUE, index |-> i, snaps |-> s, bad |-> b, latest |-> l] :
      i \in {Absent, Garbage, Undecodable, json_dump(NotADict),
             json_dump(Dict(_default_json(ResId)))},
      s \in {f \in [TS -> UNION {SnapContents(t) : t \in TS}] :
               \A t \in TS : f[t] \in SnapContents(t)},
      b \in {Absent, json_dump(Dict(SnapDoc(0)))},
      l \in {PAbsent, PEmpty, PName(FIndex), PName(FBad)}
              \cup {PName(FSnap(t)) : t \in TS} }

InitRes ==
  /\ rootExists \in BOOLEAN
  /\ dir \in InitDirs
  /\ dir.exists => rootExists
  /\ last = NoCall
  /\ pre = [root |-> rootExists, dir |-> dir]
  /\ written = NoWrite
  /\ mig = [pc |-> "idle"]
  /\ dir0 = NoDir
  /\ crashes = 0
  /\ lab = NoLab
  /\ callers = NoCallers
  /\ InitFs
  /\ jobs = <<>>
  /\ exp = NoDir

\* get_dir() of every resource kind asks dirs.py for the root of the kind,
\* which makes that directory (dirs.py 81-91, 119-134)
get_dir == rootExists' = TRUE

Remember == pre' = [root |-> rootExists, dir |-> dir]

\* cls.create(id)
Create ==
  LET r == _initialize(dir, ResId) IN
  /\ get_dir
  /\ Remember
  /\ dir' = r.dir
  /\ last' = Called("create", NoValue, r.exc, NoValue)
  /\ written' = IF r.exc = "none" THEN NoWrite ELSE written
  /\ UNCHANGED notRes

\* cls.get(id)
Get ==
  LET r == get(dir, ResId) IN
  /\ get_dir
  /\ Remember
  /\ dir' = r.dir
  /\ last' = Called("get", NoValue, r.exc, NoValue)
  /\ written' = IF r.dir # dir THEN NoWrite ELSE written
  /\ UNCHANGED notRes

\* resource.get_json_data()
GetJsonData ==
  LET r == get_json_data(dir) IN
  /\ get_dir
  /\ Remember
  /\ dir' = r.dir
  /\ last' = Called("get_json_data", NoValue, r.exc, r.ret)
  /\ UNCHANGED <<written, notRes>>

\* resource._set_json_data(json_data)
SetJsonData ==
  \E v \in {Dict(w) : w \in WriteDocs} \cup {NotADict} :
    LET r == _set_json_data(dir, v) IN
    /\ rootExists' = (rootExists \/ isinstance_dict(v))
    /\ Remember
    /\ dir' = r.dir
    /\ last' = Called("_set_json_data", v, r.exc, NoValue)
    /\ written' = IF r.exc = "none" THEN [v |-> v, from |-> dir] ELSE written
    /\ UNCHANGED notRes

\* resource._migrate_to_single_index()
Migrate ==
  /\ get_dir
  /\ Remember
  /\ dir' = _migrate_to_single_index(dir)
  /\ last' = Called("_migrate_to_single_index",
                     [latest_file |-> IF already_migrated(dir) THEN PAbsent
                                      ELSE latest_file(dir)],
                     "none", NoValue)
  /\ UNCHANGED <<written, notRes>>

\* resource.delete()
Delete ==
  /\ get_dir
  /\ Remember
  /\ dir' = delete(dir)
  /\ last' = Called("delete", NoValue, "none", NoValue)
  /\ written' = NoWrite
  /\ UNCHANGED notRes

NextRes ==
  \/ Create
  \/ Get
  \/ GetJsonData
  \/ SetJsonData
  \/ Migrate
  \/ Delete

vars == <<resVars, crashVars, expVars, sessVars, fsVars>>

SpecRes == InitRes /\ [][NextRes]_vars

\* ------------------------------------------------------------------------
\* Properties of SpecRes
\* ------------------------------------------------------------------------
\* C1. Round trip: a get_json_data() that follows _set_json_data(d) with no
\* write in between returns d, whatever the directory held before the write
\* (index.json only, snapshots only, or both).
RoundTrip ==
  (last.op = "get_json_data" /\ written # NoWrite) => last.ret = written.v

\* C1 witness: a document written into a directory that held snapshot files
\* and no index.json has just been read back.
RoundTripWitness ==
  /\ last.op = "get_json_data"
  /\ last.prev = "_set_json_data"
  /\ written # NoWrite
  /\ last.ret = written.v
  /\ ~path_exists(written.from.index)
  /\ \A t \in TS : LoadOk(written.from.snaps[t])

\* the greatest timestamp among the snapshot files of d
Newest(d) == CHOOSE t \in StampsPresent(d) : \A u \in StampsPresent(d) : u <= t

\* a directory as the two writers leave it: every snapshot file has a
\* timestamp and parses, latest.txt is absent or names a snapshot that is
\* there, and index.json, if there, parses
WellFormedLayout(d) ==
  /\ d.exists
  /\ ~path_exists(d.bad)
  /\ \A t \in StampsPresent(d) : LoadOk(d.snaps[t])
  /\ path_exists(d.index) => LoadOk(d.index)
  /\ path_exists(d.index) \/ StampsPresent(d) # {}
  /\ \/ d.latest = PAbsent
     \/ \E t \in StampsPresent(d) : d.latest = PName(FSnap(t))

Designated(d) ==
  IF d.latest.p = "name" /\ path_exists(FileAt(d, d.latest.file))
  THEN FileAt(d, d.latest.file)
  ELSE IF StampsPresent(d) # {} THEN d.snaps[Newest(d)]
  ELSE Absent

CreateOnce ==
  last.op = "create" =>
    IF path_exists(pre.dir.index)
    THEN last.exc = "FileExistsError" /\ dir = pre.dir
    ELSE /\ last.exc = "none"
         /\ dir.exists
         /\ dir.index = json_dump(Dict(_default_json(ResId)))

\* C9 witness: a second create after a document was written has failed.
CreateOnceWitness ==
  /\ last.op = "create"
  /\ last.exc = "FileExistsError"
  /\ written # NoWrite
  /\ dir.index = json_dump(written.v)

IdleMig(start, ended) ==
  [pc |-> "idle", data |-> NoValue, start |-> start, ended |-> ended]

InitCrash ==
  /\ dir \in InitDirs
  /\ dir0 = dir
  /\ mig = IdleMig(NoDir, "never")
  /\ crashes = 0
  /\ lab = NoLab
  /\ callers = NoCallers
  /\ InitFs
  /\ rootExists = TRUE
  /\ last = NoCall
  /\ pre = [root |-> TRUE, dir |-> NoDir]
  /\ written = NoWrite
  /\ jobs = <<>>
  /\ exp = NoDir

notCrash == <<rootExists, last, pre, written, expVars, sessVars, fsVars>>

\* lines 139-192: the early returns, the choice of latest_file and
\* json.load of it; a migration that finds nothing to do returns here
MigBegin ==
  /\ mig.pc = "idle"
  /\ IF \/ already_migrated(dir)
        \/ latest_file(dir) = PAbsent
        \/ ~LoadOk(FileAt(dir, latest_file(dir).file))
     THEN mig' = IdleMig(dir, "returned")
     ELSE mig' = [pc |-> "open",
                  data |-> json_load(FileAt(dir, latest_file(dir).file)),
                  start |-> dir, ended |-> mig.ended]
  /\ UNCHANGED <<dir, dir0, crashes, notCrash>>

\* line 195: open(index_file, "w") leaves an empty index.json
MigOpen ==
  /\ mig.pc = "open"
  /\ dir' = [dir EXCEPT !.index = Garbage]
  /\ mig' = [mig EXCEPT !.pc = "dump"]
  /\ UNCHANGED <<dir0, crashes, notCrash>>

\* line 196: json.dump(data, f)
MigDump ==
  /\ mig.pc = "dump"
  /\ dir' = [dir EXCEPT !.index = json_dump(mig.data)]
  /\ mig' = [mig EXCEPT !.pc = "clean"]
  /\ UNCHANGED <<dir0, crashes, notCrash>>

\* lines 199-201: os.remove of one index-*.json file, in listing order
MigRemove ==
  /\ mig.pc = "clean"
  /\ \/ \E t \in StampsPresent(dir) :
          dir' = [dir EXCEPT !.snaps[t] = Absent]
     \/ /\ path_exists(dir.bad)
        /\ dir' = [dir EXCEPT !.bad = Absent]
  /\ UNCHANGED <<mig, dir0, crashes, notCrash>>

\* lines 203-204: the loop is over, latest.txt is removed, migration returns
MigUnlinkLatest ==
  /\ mig.pc = "clean"
  /\ ~has_timestamped_files(dir)
  /\ dir' = [dir EXCEPT !.latest = PAbsent]
  /\ mig' = IdleMig(mig.start, "returned")
  /\ UNCHANGED <<dir0, crashes, notCrash>>

\* the process running the migration stops between two steps
Crash ==
  /\ mig.pc # "idle"
  /\ crashes < MaxCrash
  /\ mig' = IdleMig(mig.start, "abandoned")
  /\ crashes' = crashes + 1
  /\ UNCHANGED <<dir, dir0, notCrash>>

NextCrash ==
  \/ MigBegin
  \/ MigOpen
  \/ MigDump
  \/ MigRemove
  \/ MigUnlinkLatest
  \/ Crash

SpecCrash == InitCrash /\ [][NextCrash]_vars

\* the steps agree with the whole function: a migration that returns leaves
\* what _migrate_to_single_index computes from the directory it found
StepsAgree ==
  (mig.pc = "idle" /\ mig.ended = "returned") =>
    dir = _migrate_to_single_index(mig.start)

\* the directory was in a sound snapshot layout before the first migration:
\* latest.txt, if there, named the newest snapshot
StartedClean ==
  /\ WellFormedLayout(dir0)
  /\ StampsPresent(dir0) # {}
  /\ dir0.latest \in {PAbsent, PName(FSnap(Newest(dir0)))}

\* C3. Interrupted migration loses no data: once a migration has returned,
\* whatever migrations were abandoned before it, index.json holds the
\* document of the snapshot that was the latest before the first one.
InterruptedMigrationKeepsLatest ==
  (StartedClean /\ mig.pc = "idle" /\ mig.ended = "returned") =>
    dir.index = dir0.snaps[Newest(dir0)]

\* ------------------------------------------------------------------------
\* SpecExp and SpecIdx: one experiment and the job directories
\* ------------------------------------------------------------------------
notExp == <<rootExists, dir, pre, written, crashVars, sessVars, fsVars>>

\* the record of a call on an experiment or a job
CalledExp(op, arg, exc, ret) ==
  [op |-> op, arg |-> arg, exc |-> exc, ret |-> ret, prev |-> "none"]

\* Experiment.create(ExpId)
ExperimentCreate ==
  LET r == Experiment_create(exp, ExpId) IN
  /\ exp' = r.dir
  /\ last' = CalledExp("Experiment.create", NoValue, r.exc, NoValue)
  /\ UNCHANGED <<jobs, notExp>>

\* experiment.create_job()
CreateJob ==
  /\ largest_numeric_subdir(jobs) < MaxJobs
  /\ LET r == create_job(jobs, ExpId) IN
        /\ jobs' = r.jobs
     /\ last' = CalledExp("create_job", NoValue, r.exc, r.ret)
  /\ UNCHANGED <<exp, notExp>>

\* Job.get(j).set_experiment(e)
SetExperiment ==
  \E j \in JobIds, e \in {ExpId, OtherExp} :
    LET g == Job_get(jobs[j], j)
        r == IF g.exc # "none" THEN g ELSE set_experiment(g.dir, e)
    IN
      /\ jobs' = [jobs EXCEPT ![j] = r.dir]
    /\ last' = CalledExp("set_experiment", NoValue, r.exc, NoValue)
    /\ UNCHANGED <<exp, notExp>>

\* statuses callers set
StatusArgs == {"NOT_STARTED", "RUNNING"}

\* Job.get(j).update_status(s)
UpdateStatus ==
  \E j \in JobIds, st \in StatusArgs :
    LET g == Job_get(jobs[j], j)
        r == IF g.exc # "none" THEN g ELSE update_status(g.dir, st)
    IN
      /\ jobs' = [jobs EXCEPT ![j] = r.dir]
    /\ last' = CalledExp("update_status", NoValue, r.exc, NoValue)
    /\ UNCHANGED <<exp, notExp>>

\* Job.create("tmp"): a directory of the jobs root whose name is no number;
\* its experiment_id stays empty, so that no index lists it
JobCreateNamed ==
  LET r == Job_create(jobs[0], entry_name(0)) IN
  /\ jobs' = [jobs EXCEPT ![0] = r.dir]
  /\ last' = CalledExp("Job.create", NoValue, r.exc, NoValue)
  /\ UNCHANGED <<exp, notExp>>

\* Job.get(j).delete()
DeleteJob ==
  \E j \in JobIds :
    \E r \in {and_then(Job_get(jobs[j], j), LAMBDA x : Job_delete(x))} :
      /\ jobs' = [jobs EXCEPT ![j] = r.dir]
      /\ last' = CalledExp("Job.delete", [job |-> j], r.exc, NoValue)
      /\ UNCHANGED <<exp, notExp>>

\* experiment.rebuild_jobs_index()
Rebuild ==
  /\ exp' = rebuild_jobs_index(exp, jobs, ExpId)
  /\ last' = CalledExp("rebuild_jobs_index", NoValue, "none", NoValue)
  /\ UNCHANGED <<jobs, notExp>>

\* experiment._get_all_jobs()
GetAllJobs ==
  /\ last' = CalledExp("_get_all_jobs", NoValue, "none", _get_all_jobs(exp))
  /\ UNCHANGED <<jobs, exp, notExp>>

\* experiment.get_jobs(type, status)
GetJobs ==
  \E type \in {"", "REMOTE"}, status \in {"", "DELETED"} \cup StatusArgs :
    LET r == get_jobs(exp, jobs, ExpId, type, status) IN
      /\ exp' = r.exp
    /\ jobs' = r.jobs
    /\ last' = CalledExp("get_jobs", [type |-> type, status |-> status],
                      r.exc, r.ret)
    /\ UNCHANGED notExp

\* experiment.delete(); the call is recorded with the jobs it found listed
ExperimentDelete ==
  LET r == Experiment_delete(exp, jobs) IN
  /\ exp' = r.exp
  /\ jobs' = r.jobs
  /\ last' = CalledExp("Experiment.delete", [listed |-> _get_all_jobs(exp)],
                       "none", NoValue)
  /\ UNCHANGED notExp

\* an empty workspace: no entry of the jobs root exists
InitExp ==
  /\ jobs = [i \in 0..MaxJobs |-> NoJobDir]
  /\ exp = NoExpDir
  /\ last = NoCall
  /\ pre = [root |-> TRUE, dir |-> NoDir]
  /\ rootExists = TRUE
  /\ dir = NoDir
  /\ written = NoWrite
  /\ mig = [pc |-> "idle"]
  /\ dir0 = NoDir
  /\ crashes = 0
  /\ lab = NoLab
  /\ callers = NoCallers
  /\ InitFs

NextExp ==
  \/ ExperimentCreate
  \/ CreateJob
  \/ SetExperiment
  \/ UpdateStatus
  \/ JobCreateNamed
  \/ DeleteJob
  \/ Rebuild
  \/ GetAllJobs
  \/ GetJobs
  \/ ExperimentDelete

SpecExp == InitExp /\ [][NextExp]_vars

\* job directories as rebuild_jobs_index may find them: missing, without
\* index.json, with an index.json that does not parse or is no object, or
\* with a document of any experiment_id and type, or one of the experiment
\* without job_data or with an empty job_data
dict_without(doc, key) == [f \in DOMAIN doc \ {key} |-> doc[f]]

FoundDocs(j) ==
  { dict_without(dict_put(Job_default_json(j), "experiment_id", ExpId),
                 "job_data"),
    dict_put(dict_put(Job_default_json(j), "experiment_id", ExpId),
             "job_data", EmptyDoc) } \cup
  { IF ty = "" THEN dict_without(d, "type") ELSE dict_put(d, "type", ty) :
      ty \in {"", "REMOTE", "TRAIN"},
      d \in {dict_without(Job_default_json(j), "experiment_id")} \cup
            {dict_put(Job_default_json(j), "experiment_id", e) :
               e \in {ExpId, OtherExp}} }

FoundJobDirs(j) ==
  {NoJobDir} \cup
  { [NoJobDir EXCEPT !.exists = TRUE, !.index = c] :
      c \in {Absent, Garbage, Undecodable, json_dump(NotADict)} \cup
            {json_dump(Dict(d)) : d \in FoundDocs(j)} }

\* jobs.json as it may be found: missing, damaged, the default, or an index
\* written by an earlier rebuild
FoundIndexes ==
  {Absent, Garbage, json_dump(Dict(DEFAULT_JOBS_INDEX)),
   json_dump(Dict(<<[k |-> "REMOTE", v |-> <<1, 2>>]>>))}

InitIdx ==
  /\ jobs \in [JobIds -> UNION {FoundJobDirs(j) : j \in JobIds}]
  /\ \A j \in JobIds : jobs[j] \in FoundJobDirs(j)
  /\ \E c \in FoundIndexes :
       exp = [Experiment_create(NoExpDir, ExpId).dir EXCEPT !.jobsjson = c]
  /\ last = NoCall
  /\ pre = [root |-> TRUE, dir |-> NoDir]
  /\ rootExists = TRUE
  /\ dir = NoDir
  /\ written = NoWrite
  /\ mig = [pc |-> "idle"]
  /\ dir0 = NoDir
  /\ crashes = 0
  /\ lab = NoLab
  /\ callers = NoCallers
  /\ InitFs

NextIdx ==
  \/ Rebuild
  \/ GetAllJobs
  \/ GetJobs
  \/ ExperimentDelete

SpecIdx == InitIdx /\ [][NextIdx]_vars

\* ------------------------------------------------------------------------
\* Properties of the jobs index
\* ------------------------------------------------------------------------
\* the document of job j, when index.json holds a JSON object
HasDoc(J, j) ==
  J[j].exists /\ LoadOk(J[j].index) /\ isinstance_dict(json_load(J[j].index))

DocOf(J, j) == json_load(J[j].index).d

\* the jobs whose own experiment_id is this experiment's id
Matching(J) ==
  {j \in JobIds :
     HasDoc(J, j) /\ dict_get(DocOf(J, j), "experiment_id", "") = ExpId}

\* the ids jobs.json lists under a type, and under any type
ListedUnder(e, type) ==
  IF LoadOk(e.jobsjson) /\ isinstance_dict(json_load(e.jobsjson))
  THEN LET od == json_load(e.jobsjson).d IN
       {j \in JobIds :
          \E i \in 1..Len(od) :
            od[i].k = type /\ \E n \in 1..Len(od[i].v) : od[i].v[n] = j}
  ELSE {}

Listed(e) == UNION {ListedUnder(e, ty) : ty \in {"TRAIN", "REMOTE", "UNKNOWN"}}

Elements(seq) == {seq[i] : i \in 1..Len(seq)}

\* C4. Index reconciliation: _get_all_jobs() right after rebuild_jobs_index() returns
\* exactly the ids of the jobs whose experiment_id is the experiment's, each
\* listed under its type, and neither call raises.
RebuildListsExactly ==
  [][(last.op = "rebuild_jobs_index" /\ last'.op = "_get_all_jobs") =>
       /\ Elements(last'.ret) = Matching(jobs)
       /\ Len(last'.ret) = Cardinality(Matching(jobs))
       /\ \A j \in Matching(jobs) :
            j \in ListedUnder(exp, dict_get(DocOf(jobs, j), "type", "UNKNOWN"))
       /\ last.exc = "none" /\ last'.exc = "none"]_<<last.op, exp, jobs>>

\* C5. Empty-scan guard: a rebuild_jobs_index() that finds no job of the
\* experiment leaves the content of jobs.json as it was.
EmptyScanGuard ==
  [][(last'.op = "rebuild_jobs_index" /\ Matching(jobs) = {}) =>
       exp'.jobsjson = exp.jobsjson]_<<last.op, exp, jobs>>

\* C5 witness: a rebuild has found no job of the experiment and jobs.json
\* still lists a job.
EmptyScanGuardWitness ==
  /\ last.op = "rebuild_jobs_index"
  /\ Matching(jobs) = {}
  /\ Listed(exp) # {}

\* ------------------------------------------------------------------------
\* Properties of the job listing and of the cascading delete
\* ------------------------------------------------------------------------
\* C6. The listing follows the ground truth: get_jobs() never returns the
\* document of a job whose current experiment_id is not the experiment's id.
ListingFollowsGroundTruth ==
  (last.op = "get_jobs" /\ last.exc = "none") =>
    \A i \in 1..Len(last.ret) :
      dict_get(last.ret[i], "experiment_id", "") = ExpId

\* C7. Status filter: get_jobs(status=s) with a non-empty s returns exactly
\* the documents of the jobs assigned to the experiment whose status is s.
StatusFilterExact ==
  (/\ last.op = "get_jobs"
   /\ last.exc = "none"
   /\ last.arg.type = ""
   /\ last.arg.status # ""
   /\ exp.exists) =>
    LET wanted == {j \in Matching(jobs) :
                     dict_get(DocOf(jobs, j), "status", "") = last.arg.status}
    IN /\ Elements(last.ret) = {DocOf(jobs, j) : j \in wanted}
       /\ Len(last.ret) = Cardinality(wanted)

\* C8. Cascading delete: after Experiment.delete() the experiment's directory
\* is gone and so is the directory of every job whose experiment_id is the
\* experiment's id.
CascadingDelete ==
  last.op = "Experiment.delete" =>
    /\ ~exp.exists
    /\ \A j \in JobIds :
         HasDoc(jobs, j) =>
           dict_get(DocOf(jobs, j), "experiment_id", "") # ExpId

\* ------------------------------------------------------------------------
\* Properties of get, get_json_data and _set_json_data
\* ------------------------------------------------------------------------
\* what get(id) is to leave: the document create(id) writes, which a read
\* returns and a second get(id) does not touch
SelfHealed ==
  /\ last.exc = "none"
  /\ dir.index = _initialize(EmptyDir, ResId).dir.index
  /\ get_json_data(dir).exc = "none"
  /\ get_json_data(dir).ret = Dict(_default_json(ResId))
  /\ get(dir, ResId).dir = dir

UnreadableGivesEmpty ==
  (last.op = "get_json_data" /\ ~LoadOk(pre.dir.index)) =>
    /\ last.exc = "none"
    /\ last.ret = Dict(EmptyDoc)
    /\ dir.index = pre.dir.index

\* C13. _set_json_data(doc) with a doc that is no JSON object raises
\* TypeError and changes no file.
NonObjectRejected ==
  (last.op = "_set_json_data" /\ ~isinstance_dict(last.arg)) =>
    /\ last.exc = "TypeError"
    /\ dir = pre.dir
    /\ rootExists = pre.root

\* C13 witness: a non-object has been rejected on a directory that still
\* holds its snapshot files and latest.txt.
NonObjectRejectedWitness ==
  /\ last.op = "_set_json_data"
  /\ last.arg = NotADict
  /\ last.exc = "TypeError"
  /\ StampsPresent(dir) # {}
  /\ dir.latest # PAbsent

\* ------------------------------------------------------------------------
\* One job, its completion protocol and the Lab facade
\* ------------------------------------------------------------------------
\* the job the calls of SpecJob are made on, also the one _TFL_JOB_ID names
TheJob == 1

\* Job.update_progress(progress)
update_progress(d, progress) == _update_json_data_field(d, "progress", progress)

\* score=None
NoScore == [t |-> "none"]

\* a faulty set_job_completion_status: any outcome is recorded
set_job_completion_status_unvalidated(d, completion_status, completion_details, score) ==
  and_then(update_job_data_field(d, "completion_status", completion_status),
           LAMBDA x : update_job_data_field(x, "completion_details",
                                            completion_details))

\* Job.set_job_completion_status(completion_status, completion_details,
\* score): ValueError unless the outcome is "success" or "failed"; outcome
\* and details go into job_data, the score when one is given, and on
\* "failed" job_data.status becomes "FAILED"
set_job_completion_status(d, completion_status, completion_details, score) ==
  IF completion_status \notin {"success", "failed"}
  THEN [dir |-> d, exc |-> "ValueError"]
  ELSE
    LET r1 == update_job_data_field(d, "completion_status", completion_status)
        r2 == and_then(r1, LAMBDA x :
                update_job_data_field(x, "completion_details",
                                      completion_details))
        r3 == IF score = NoScore THEN r2
              ELSE and_then(r2, LAMBDA x :
                     update_job_data_field(x, "score", score))
    IN IF completion_status = "failed"
       THEN and_then(r3, LAMBDA x : update_job_data_field(x, "status", "FAILED"))
       ELSE r3

\* a faulty Lab.finish: the score is not recorded
Lab_finish_without_score(d, message, score) ==
  LET r1 == update_progress(d, 100)
      r2 == and_then(r1, LAMBDA x : update_status(x, "COMPLETE"))
      r3 == and_then(r2, LAMBDA x :
              update_job_data_field(x, "completion_status", "success"))
  IN and_then(r3, LAMBDA x :
       update_job_data_field(x, "completion_details", message))

\* Lab.finish(message, score), without the optional paths
Lab_finish(d, message, score) ==
  LET r1 == update_progress(d, 100)
      r2 == and_then(r1, LAMBDA x : update_status(x, "COMPLETE"))
      r3 == and_then(r2, LAMBDA x :
              update_job_data_field(x, "completion_status", "success"))
      r4 == and_then(r3, LAMBDA x :
              update_job_data_field(x, "completion_details", message))
  IN IF score = NoScore THEN r4
     ELSE and_then(r4, LAMBDA x : update_job_data_field(x, "score", score))

\* a faulty Lab.error: job_data.status is not set
Lab_error_without_status(d, message) ==
  LET r1 == update_status(d, "COMPLETE")
      r2 == and_then(r1, LAMBDA x :
              update_job_data_field(x, "completion_status", "failed"))
  IN and_then(r2, LAMBDA x :
       update_job_data_field(x, "completion_details", message))

\* Lab.error(message)
Lab_error(d, message) ==
  LET r1 == update_status(d, "COMPLETE")
      r2 == and_then(r1, LAMBDA x :
              update_job_data_field(x, "completion_status", "failed"))
      r3 == and_then(r2, LAMBDA x :
              update_job_data_field(x, "completion_details", message))
  IN and_then(r3, LAMBDA x : update_job_data_field(x, "status", "FAILED"))

\* Experiment(experiment_id, create_new=True)
Experiment_new(e, id) ==
  IF ~e.exists \/ ~path_exists(e.index) THEN Experiment_create(e, id).dir
  ELSE e

\* the else branch of Lab.init and the update_status that follows it
Lab_init_new_job(J, experiment_id) ==
  The({LET r1 == [dir |-> c.jobs[c.ret], exc |-> c.exc]
           r2 == and_then(r1, LAMBDA x :
                   update_job_data_field(x, "start_time", "t0"))
           r3 == and_then(r2, LAMBDA x : set_experiment(x, experiment_id))
           r4 == and_then(r3, LAMBDA x : update_status(x, "RUNNING"))
       IN The({[jobs |-> [J EXCEPT ![c.ret] = r.dir], exc |-> r.exc,
                job |-> IF c.exc = "none" THEN c.ret ELSE 0] :
               r \in {r4}}) :
       c \in {create_job(J, experiment_id)}})

\* what the calls of SpecJob leave alone
notJob == <<rootExists, dir, pre, written, crashVars, callers, fsVars>>

\* a call on Job.get(TheJob)
OnTheJob(op, arg, F(_)) ==
  \E r \in {and_then(Job_get(jobs[TheJob], TheJob), F)} :
    /\ jobs' = [jobs EXCEPT ![TheJob] = r.dir]
    /\ last' = CalledExp(op, arg, r.exc, NoValue)
    /\ UNCHANGED <<exp, lab, notJob>>

\* Lab._ensure_initialized() raises: no experiment or no job is attached
_ensure_initialized(l) == l.experiment = "" \/ l.job = 0

\* a call on lab, which _ensure_initialized() guards
OnLabJob(op, arg, F(_)) ==
  /\ IF _ensure_initialized(lab)
     THEN /\ last' = CalledExp(op, arg, "RuntimeError", NoValue)
          /\ UNCHANGED jobs
     ELSE \E r \in {F(jobs[lab.job])} :
            /\ jobs' = [jobs EXCEPT ![lab.job] = r.dir]
            /\ last' = CalledExp(op, arg, r.exc, NoValue)
  /\ UNCHANGED <<exp, lab, notJob>>

\* Job.create(TheJob)
JobCreate ==
  LET r == Job_create(jobs[TheJob], TheJob) IN
  /\ jobs' = [jobs EXCEPT ![TheJob] = r.dir]
  /\ last' = CalledExp("Job.create", NoValue, r.exc, NoValue)
  /\ UNCHANGED <<exp, lab, notJob>>

\* Job.get(TheJob).update_progress(p)
JobUpdateProgress ==
  \E p \in {50, 150} :
    OnTheJob("update_progress", [progress |-> p],
             LAMBDA x : update_progress(x, p))

\* Job.get(TheJob).update_status(st)
JobUpdateStatus ==
  \E st \in StatusArgs \cup {"QUEUED"} :
    OnTheJob("update_status", [status |-> st], LAMBDA x : update_status(x, st))

\* Job.get(TheJob).delete()
JobDelete == OnTheJob("Job.delete", NoValue, LAMBDA x : Job_delete(x))

\* Job.get(TheJob).set_job_completion_status(outcome, details, score)
SetJobCompletionStatus ==
  \E o \in {"success", "failed", "bogus"}, dt \in {"ok", "boom"},
     sc \in {NoScore, [acc |-> 1]} :
    OnTheJob("set_job_completion_status",
             [outcome |-> o, details |-> dt, score |-> sc],
             LAMBDA x : set_job_completion_status(x, o, dt, sc))

\* lab.init(ExpId) with _TFL_JOB_ID naming TheJob
LabInitExisting ==
  \E g \in {Job_get(jobs[TheJob], TheJob)} :
    \E r \in {and_then(g, LAMBDA x : update_status(x, "RUNNING"))} :
      /\ jobs' = [jobs EXCEPT ![TheJob] = r.dir]
      /\ lab' = [experiment |-> ExpId,
                 job |-> IF g.exc = "none" THEN TheJob ELSE lab.job,
                 ready |-> lab.ready \/ r.exc = "none"]
      /\ last' = CalledExp("Lab.init", [env |-> TheJob], r.exc, NoValue)
      /\ UNCHANGED <<exp, notJob>>

\* lab.init(ExpId) without _TFL_JOB_ID, by the first session of a workspace:
\* the job it creates is TheJob
LabInitNew ==
  /\ largest_numeric_subdir(jobs) = 0
  /\ \E r \in {Lab_init_new_job(jobs, ExpId)} :
       /\ exp' = Experiment_new(exp, ExpId)
       /\ jobs' = r.jobs
       /\ lab' = [experiment |-> ExpId,
                  job |-> IF r.job # 0 THEN r.job ELSE lab.job,
                  ready |-> lab.ready \/ r.exc = "none"]
       /\ last' = CalledExp("Lab.init", [env |-> 0], r.exc, NoValue)
  /\ UNCHANGED notJob

\* lab.update_progress(p)
LabUpdateProgress ==
  \E p \in {50, 150} :
    OnLabJob("Lab.update_progress", [progress |-> p],
             LAMBDA x : update_progress(x, p))

\* lab.finish(message, score)
LabFinish ==
  \E m \in {"ok", "boom"}, sc \in {NoScore, [acc |-> 1]} :
    OnLabJob("Lab.finish", [details |-> m, score |-> sc],
             LAMBDA x : Lab_finish(x, m, sc))

\* lab.error(message)
LabError ==
  \E m \in {"ok", "boom"} :
    OnLabJob("Lab.error", [details |-> m], LAMBDA x : Lab_error(x, m))

NextJob ==
  \/ JobCreate
  \/ JobUpdateProgress
  \/ JobUpdateStatus
  \/ JobDelete
  \/ SetJobCompletionStatus
  \/ LabInitExisting
  \/ LabInitNew
  \/ LabUpdateProgress
  \/ LabFinish
  \/ LabError

SpecJob == InitExp /\ [][NextJob]_vars

\* ------------------------------------------------------------------------
\* Properties of the job document
\* ------------------------------------------------------------------------
\* job_data of TheJob's document
JobData(J) == dict_get(DocOf(J, TheJob), "job_data", EmptyDoc)

\* a call that completes the job with the given outcome has just returned
Completed(call, outcome) ==
  /\ call.exc = "none"
  /\ \/ call.op = "set_job_completion_status" /\ call.arg.outcome = outcome
     \/ call.op = "Lab.finish" /\ outcome = "success"
     \/ call.op = "Lab.error" /\ outcome = "failed"

\* C14. Completion validation: set_job_completion_status on a job with an
\* outcome other than "success" and "failed" raises ValueError and leaves
\* the job document unchanged.
CompletionValidated ==
  [][(/\ last'.op = "set_job_completion_status"
      /\ last'.arg.outcome \notin {"success", "failed"}
      /\ jobs[TheJob].exists) =>
       /\ last'.exc = "ValueError"
       /\ path_exists(jobs[TheJob].index) => jobs' = jobs]_<<last.op, jobs>>

\* C14 witness: an outcome "bogus" has been refused on a job that was
\* completed before, and the document still says so.
CompletionValidatedWitness ==
  /\ last.op = "set_job_completion_status"
  /\ last.arg.outcome = "bogus"
  /\ last.exc = "ValueError"
  /\ HasDoc(jobs, TheJob)
  /\ dict_get(JobData(jobs), "completion_status", "") = "success"

\* C15. Failed completion: after set_job_completion_status("failed", ...)
\* or Lab.error(message), job_data holds completion_status "failed", the
\* given message as completion_details, and status "FAILED".
FailedCompletion ==
  Completed(last, "failed") =>
    /\ HasDoc(jobs, TheJob)
    /\ dict_get(JobData(jobs), "completion_status", "") = "failed"
    /\ dict_get(JobData(jobs), "completion_details", "") = last.arg.details
    /\ dict_get(JobData(jobs), "status", "") = "FAILED"

\* C15 witness: Lab.error has failed a job that had finished successfully.
FailedCompletionWitness ==
  /\ last.op = "Lab.error"
  /\ last.exc = "none"
  /\ dict_get(JobData(jobs), "status", "") = "FAILED"
  /\ dict_get(JobData(jobs), "score", NoScore) # NoScore

StatusOf(J) == dict_get(DocOf(J, TheJob), "status", "")

\* C17. Terminal statuses are absorbing: a status DELETED is never changed,
\* and a status COMPLETE never goes back to NOT_STARTED, QUEUED or RUNNING.
TerminalAbsorbing ==
  [][(HasDoc(jobs, TheJob) /\ HasDoc(jobs', TheJob)) =>
       /\ StatusOf(jobs) = "DELETED" => StatusOf(jobs') = "DELETED"
       /\ StatusOf(jobs) = "COMPLETE" =>
            StatusOf(jobs') \notin {"NOT_STARTED", "QUEUED", "RUNNING"}]_jobs

\* C18. The progress of every job document is an integer from 0 to 100.
ProgressInRange ==
  \A j \in JobIds :
    HasDoc(jobs, j) => dict_get(DocOf(jobs, j), "progress", 0) \in 0..100

\* ------------------------------------------------------------------------
\* Two concurrent callers: single-field updates of one job, and create_job
\* ------------------------------------------------------------------------
\* what the steps of the callers leave alone
notRace == <<rootExists, dir, pre, written, crashVars, exp, lab, fsVars>>

\* a caller is between two calls
Free(c) == callers[c].pc \in {"idle", "done"}

\* _update_json_data_field on TheJob, once a create_job has made it, first
\* half: json_data = self.get_json_data(); json_data[key] = value. The
\* callers set status (update_status) or progress (update_progress).
FieldRead(c) ==
  /\ Free(c)
  /\ path_exists(jobs[TheJob].index)
  /\ \E kv \in {[key |-> "status", value |-> "RUNNING"],
                [key |-> "progress", value |-> 50]} :
       \E r \in {get_json_data(jobs[TheJob])} :
         /\ jobs' = [jobs EXCEPT ![TheJob] = r.dir]
         /\ callers' = [callers EXCEPT ![c] =
              IF r.exc = "none" /\ isinstance_dict(r.ret)
              THEN [pc |-> "read", op |-> "field", key |-> kv.key,
                    json_data |-> dict_put(r.ret.d, kv.key, kv.value)]
              ELSE [pc |-> "idle"]]
         /\ last' = CalledExp("get_json_data", [caller |-> c], r.exc, NoValue)
  /\ UNCHANGED notRace

\* a faulty second half: the document is read again and only the caller's
\* key is put into it
FieldWrite_rereading(c) ==
  /\ callers[c].pc = "read"
  /\ \E r \in {_update_json_data_field(jobs[TheJob], callers[c].key,
                                      callers[c].json_data[callers[c].key])} :
       /\ jobs' = [jobs EXCEPT ![TheJob] = r.dir]
       /\ callers' = [callers EXCEPT ![c].pc = "done"]
       /\ last' = CalledExp("_update_json_data_field", [caller |-> c],
                            r.exc, NoValue)
  /\ UNCHANGED notRace

\* _update_json_data_field, second half: self._set_json_data(json_data)
FieldWrite(c) ==
  /\ callers[c].pc = "read"
  /\ \E r \in {_set_json_data(jobs[TheJob], Dict(callers[c].json_data))} :
       /\ jobs' = [jobs EXCEPT ![TheJob] = r.dir]
       /\ callers' = [callers EXCEPT ![c].pc = "done"]
       /\ last' = CalledExp("_update_json_data_field", [caller |-> c],
                            r.exc, NoValue)
  /\ UNCHANGED notRace

\* a faulty scan: the directory of the new id is made while it is chosen
CreateJobScan_reserving(c) ==
  /\ Free(c)
  /\ largest_numeric_subdir(jobs) < MaxJobs
  /\ \E n \in {largest_numeric_subdir(jobs) + 1} :
       /\ callers' = [callers EXCEPT ![c] =
            [pc |-> "scanned", op |-> "create_job", new_job_id |-> n,
             fresh |-> TRUE]]
       /\ jobs' = [jobs EXCEPT ![n].exists = TRUE]
  /\ last' = CalledExp("listdir", [caller |-> c], "none", NoValue)
  /\ UNCHANGED notRace

\* create_job, first half: the scan of the jobs directory that gives
\* new_job_id; fresh records that no create_job has made a job since
CreateJobScan(c) ==
  /\ Free(c)
  /\ largest_numeric_subdir(jobs) < MaxJobs
  /\ callers' = [callers EXCEPT ![c] =
       [pc |-> "scanned", op |-> "create_job",
        new_job_id |-> largest_numeric_subdir(jobs) + 1, fresh |-> TRUE]]
  /\ last' = CalledExp("listdir", [caller |-> c], "none", NoValue)
  /\ UNCHANGED <<jobs, notRace>>

\* create_job, second half: Job.create(new_job_id), set_experiment
CreateJobMake(c) ==
  /\ callers[c].pc = "scanned"
  /\ \E n \in {callers[c].new_job_id} :
     \E r \in {and_then(Job_create(jobs[n], n),
                        LAMBDA x : set_experiment(x, ExpId))} :
       /\ jobs' = [jobs EXCEPT ![n] = r.dir]
       /\ callers' = [o \in Callers |->
            IF o = c THEN [callers[c] EXCEPT !.pc = "done"]
            ELSE IF callers[o].pc = "scanned"
            THEN [callers[o] EXCEPT !.fresh = FALSE]
            ELSE callers[o]]
       /\ last' = CalledExp("create_job", [caller |-> c], r.exc, NoValue)
  /\ UNCHANGED notRace

NextRace ==
  \E c \in Callers :
    \/ FieldRead(c)
    \/ FieldWrite(c)
    \/ CreateJobScan(c)
    \/ CreateJobMake(c)

SpecRace == InitExp /\ [][NextRace]_vars

\* C19. Lost update: the document a single-field update leaves is the one
\* its caller wrote, the document it read with its own field set, whatever
\* another caller wrote in between.
LastWriterWins ==
  (last.op = "_update_json_data_field" /\ last.exc = "none") =>
    jobs[TheJob].index = json_dump(Dict(callers[last.arg.caller].json_data))

\* C19 witness: both callers have updated different fields, and the update
\* of the one that wrote first is absent from the document.
LostUpdateWitness ==
  /\ last.op = "_update_json_data_field"
  /\ \E c, o \in Callers :
       /\ c = last.arg.caller /\ o # c
       /\ callers[c].pc = "done" /\ callers[c].op = "field"
       /\ callers[o].pc = "done" /\ callers[o].op = "field"
       /\ callers[o].key # callers[c].key
       /\ DocOf(jobs, TheJob)[callers[o].key]
            # callers[o].json_data[callers[o].key]

\* both callers hold a new_job_id, and no job was made since either scan
BothScanned ==
  \A c \in Callers : callers[c].pc = "scanned" /\ callers[c].fresh

\* C20. Duplicate allocation: two callers that have both scanned the jobs
\* directory before either made its job hold the same new_job_id.
DuplicateAllocation ==
  BothScanned => callers["a"].new_job_id = callers["b"].new_job_id

\* C20 witness: both callers hold the same new_job_id and its directory
\* does not exist yet.
DuplicateAllocationWitness ==
  /\ BothScanned
  /\ callers["a"].new_job_id = callers["b"].new_job_id
  /\ ~jobs[callers["a"].new_job_id].exists

\* ------------------------------------------------------------------------
\* Properties of create_job
\* ------------------------------------------------------------------------
\* C21. Called one at a time, create_job() returns 1 + the greatest number that
\* names a directory of the jobs root (1 when there is none), entries whose
\* name is no number left aside, and the new job's experiment_id is the
\* experiment's id; no call removes a job directory, so that the identifiers
\* of successive calls are pairwise distinct and strictly increasing, also
\* after jobs or experiments were deleted.
AllocatesNextId ==
  [][/\ \A j \in JobIds : jobs[j].exists => jobs'[j].exists
     /\ last'.op = "create_job" =>
          /\ last'.exc = "none"
          /\ \/ /\ last'.ret = 1
                /\ \A j \in JobIds : ~jobs[j].exists
             \/ /\ last'.ret - 1 \in JobIds
                /\ jobs[last'.ret - 1].exists
                /\ \A j \in JobIds : jobs[j].exists => j < last'.ret
          /\ HasDoc(jobs', last'.ret)
          /\ DocOf(jobs', last'.ret).id = last'.ret
          /\ DocOf(jobs', last'.ret).experiment_id = ExpId
    ]_<<last.op, jobs>>

\* C21 witness: create_job() has returned 2 in a jobs root that holds the
\* directory "tmp", after job 1 and the experiment were deleted.
AllocatesNextIdWitness ==
  /\ last.op = "create_job"
  /\ last.ret = 2
  /\ jobs[0].exists
  /\ ~exp.exists
  /\ HasDoc(jobs, 1)
  /\ DocOf(jobs, 1).status = "DELETED"

\* ------------------------------------------------------------------------
\* SpecLog: the log file of one job, get_log_path and two callers of log_info
\* ------------------------------------------------------------------------
\* override_path.strip() of the values output_file_path takes
strip(override_path) == IF override_path = "  " THEN "" ELSE override_path

\* os.path.exists(log_path): the default log lies in the job directory
log_exists(d, F, log_path) ==
  IF log_path = DefaultLog THEN d.log ELSE path_exists(F[log_path])

\* Job.get_log_path(): the path returned, the job directory and the files it
\* leaves (every value of output_file_path is a string here)
get_log_path(d, F) ==
  The({LET job_data == IF r.exc = "none" /\ isinstance_dict(r.ret)
                       THEN dict_get(r.ret.d, "job_data", EmptyDoc)
                       ELSE EmptyDoc
           override_path == dict_get(job_data, "output_file_path", "")
           log_path == IF ~d.log /\ strip(override_path) # ""
                       THEN override_path ELSE DefaultLog
       IN IF log_exists(r.dir, F, log_path)
          THEN [dir |-> r.dir, files |-> F, ret |-> log_path, exc |-> "none"]
          ELSE IF log_path # DefaultLog
          THEN [dir |-> r.dir, files |-> [F EXCEPT ![log_path] = LogText(<<>>)],
                ret |-> log_path, exc |-> "none"]
          ELSE IF r.dir.exists
          THEN [dir |-> [r.dir EXCEPT !.log = TRUE],
                files |-> [F EXCEPT ![log_path] = LogText(<<>>)],
                ret |-> log_path, exc |-> "none"]
          ELSE [dir |-> r.dir, files |-> F, ret |-> log_path,
                exc |-> "FileNotFoundError"] :
       r \in {IF d.log THEN [dir |-> d, ret |-> NotADict, exc |-> "none"]
              ELSE get_json_data(d)}})

\* a faulty message_str: the message as it was passed
message_str_raw(message) == message

\* message_str of log_info: the message, ended by a newline
message_str(message) ==
  IF message # <<>> /\ message[Len(message)] = "\n" THEN message
  ELSE Append(message, "\n")

\* new_content of log_info
new_content(existing_content, message) ==
  (IF existing_content # <<>> /\
      existing_content[Len(existing_content)] # "\n"
   THEN Append(existing_content, "\n") ELSE existing_content)
  \o message_str(message)

\* what the calls of SpecLog leave alone
notLog == <<rootExists, dir, pre, written, crashVars, exp, lab, jobstat>>

\* job.get_log_path(); the call is recorded with the log file and the
\* document it found
GetLogPath ==
  \E r \in {get_log_path(jobs[TheJob], files)} :
    /\ jobs' = [jobs EXCEPT ![TheJob] = r.dir]
    /\ files' = r.files
    /\ last' = CalledExp("get_log_path",
                         [log |-> jobs[TheJob].log,
                          doc |-> json_load(jobs[TheJob].index)],
                         r.exc, r.ret)
    /\ UNCHANGED <<callers, notLog>>

\* log_info(message) of caller c up to the read of the existing content; the
\* messages of a caller carry its name
LogRead(c) ==
  /\ callers[c].pc = "idle"
  /\ \E message \in {<<c>>, <<c, "\n">>} :
       \E r \in {get_log_path(jobs[TheJob], files)} :
         /\ jobs' = [jobs EXCEPT ![TheJob] = r.dir]
         /\ files' = r.files
         /\ callers' =
              [o \in Callers |->
                 IF o = c
                 THEN IF r.exc # "none"
                      THEN [pc |-> "done", message |-> message,
                            log_path |-> r.ret, wrote |-> FALSE,
                            alone |-> TRUE]
                      ELSE [pc |-> "logging", message |-> message,
                            log_path |-> r.ret,
                            existing_content |-> r.files[r.ret].s,
                            alone |-> \A x \in Callers \ {c} :
                                        callers[x].pc # "logging"]
                 ELSE IF callers[o].pc = "logging"
                 THEN [callers[o] EXCEPT !.alone = FALSE]
                 ELSE callers[o]]
         /\ last' = CalledExp("log_info", [caller |-> c, step |-> "read"],
                              "none", NoValue)
  /\ UNCHANGED notLog

\* the rest of log_info: the whole content is written back
LogWrite(c) ==
  /\ callers[c].pc = "logging"
  /\ files' = [files EXCEPT ![callers[c].log_path] =
                 LogText(new_content(callers[c].existing_content,
                                     callers[c].message))]
  /\ callers' = [callers EXCEPT ![c] =
                   [pc |-> "done", message |-> callers[c].message,
                    log_path |-> callers[c].log_path, wrote |-> TRUE,
                    alone |-> callers[c].alone]]
  /\ last' = CalledExp("log_info", [caller |-> c, step |-> "write"],
                       "none", NoValue)
  /\ UNCHANGED <<jobs, notLog>>

\* Job.get(TheJob).update_job_data_field(key, value)
JobUpdateJobDataField ==
  \E kv \in {<<"output_file_path", OverridePath>>,
              <<"output_file_path", "  ">>,
              <<"note", "x">>, <<"note", "y">>} :
    OnTheJob("update_job_data_field", [key |-> kv[1], value |-> kv[2]],
             LAMBDA x : update_job_data_field(x, kv[1], kv[2]))

\* the job directory of TheJob as a session finds it: made by Job.create, or
\* an older one without a log file, without job_data or with an
\* output_file_path of its own; the log may hold a line without a newline
InitLog ==
  /\ \E doc \in {Job_default_json(TheJob),
                  dict_without(Job_default_json(TheJob), "job_data"),
                  dict_put(Job_default_json(TheJob), "job_data", EmptyDoc)}
                 \cup
                 {dict_put(Job_default_json(TheJob), "job_data",
                           [output_file_path |-> v]) :
                    v \in {"", "  ", OverridePath}},
        log \in BOOLEAN :
       jobs = [i \in 0..MaxJobs |->
                 IF i = TheJob
                 THEN [NoJobDir EXCEPT !.exists = TRUE, !.log = log,
                                       !.index = json_dump(Dict(doc))]
                 ELSE NoJobDir]
  /\ \E t \in {<<>>, <<"x">>}, o \in {Absent, LogText(<<"x">>)} :
       files = [p \in {DefaultLog, OverridePath} |->
                  IF p = OverridePath THEN o
                  ELSE IF jobs[TheJob].log THEN LogText(t) ELSE LogText(<<>>)]
  /\ jobstat = NoJobStat
  /\ exp = NoExpDir
  /\ last = NoCall
  /\ pre = [root |-> TRUE, dir |-> NoDir]
  /\ rootExists = TRUE
  /\ dir = NoDir
  /\ written = NoWrite
  /\ mig = [pc |-> "idle"]
  /\ dir0 = NoDir
  /\ crashes = 0
  /\ lab = NoLab
  /\ callers = NoCallers

NextLog ==
  \/ GetLogPath
  \/ JobUpdateJobDataField
  \/ \E c \in Callers : LogRead(c) \/ LogWrite(c)

SpecLog == InitLog /\ [][NextLog]_vars

\* ------------------------------------------------------------------------
\* Properties of the log file
\* ------------------------------------------------------------------------
\* the two calls of log_info have ended, c2 after c1, on the same file
BothLogged(c1, c2) ==
  /\ c1 # c2
  /\ callers[c1].pc = "done" /\ callers[c1].wrote
  /\ callers[c2].pc = "done" /\ callers[c2].wrote
  /\ callers[c1].log_path = callers[c2].log_path
  /\ last.op = "log_info" /\ last.arg.caller = c2

\* the text ends with the tail
EndsWith(text, tail) ==
  /\ Len(text) >= Len(tail)
  /\ SubSeq(text, Len(text) - Len(tail) + 1, Len(text)) = tail

\* C22. Concurrent logging: two calls of log_info on one job that do not
\* overlap leave a log file that ends with the two messages in call order,
\* each ended by a newline. (Calls that overlap can lose a message: the
\* witness.)
SequentialLogging ==
  \A c1 \in Callers, c2 \in Callers :
    (BothLogged(c1, c2) /\ callers[c1].alone /\ callers[c2].alone) =>
      EndsWith(files[callers[c2].log_path].s,
               IF callers[c1].message[Len(callers[c1].message)] = "\n"
               THEN callers[c1].message \o <<c2, "\n">>
               ELSE callers[c1].message \o <<"\n", c2, "\n">>)

\* C22 witness: two calls of log_info have overlapped and ended, and the log
\* file lacks the message of the first to write.
LostMessageWitness ==
  \E c1 \in Callers, c2 \in Callers :
    /\ BothLogged(c1, c2)
    /\ ~callers[c1].alone
    /\ \A i \in 1..Len(files[callers[c1].log_path].s) :
         files[callers[c1].log_path].s[i] # c1

\* ------------------------------------------------------------------------
\* Properties of the filters of get_jobs
\* ------------------------------------------------------------------------
\* C23. get_jobs() without a status filter never returns a job whose status is
\* DELETED; get_jobs(status="DELETED") returns the DELETED jobs of the
\* experiment: the documents of the jobs whose experiment_id is the
\* experiment's and whose status is DELETED.
DeletedOnlyOnRequest ==
  (last.op = "get_jobs" /\ last.exc = "none" /\ exp.exists) =>
    /\ last.arg.status = "" =>
         \A i \in 1..Len(last.ret) :
           dict_get(last.ret[i], "status", "") # "DELETED"
    /\ (last.arg.status = "DELETED" /\ last.arg.type = "") =>
         Elements(last.ret) =
           {DocOf(jobs, j) :
              j \in {m \in Matching(jobs) :
                       dict_get(DocOf(jobs, m), "status", "") = "DELETED"}}

\* C24 as stated: every document get_jobs() returns carries a job_data map
\* that is not empty.
NonEmptyJobData ==
  (last.op = "get_jobs" /\ last.exc = "none") =>
    \A i \in 1..Len(last.ret) :
      /\ "job_data" \in DOMAIN last.ret[i]
      /\ DOMAIN last.ret[i].job_data # {}

\* C24. get_jobs() returns only job documents that carry the key job_data: a
\* job whose document has no job_data key is never in the result (a document
\* whose job_data is the empty map is returned).
HasJobDataKey ==
  (last.op = "get_jobs" /\ last.exc = "none") =>
    \A i \in 1..Len(last.ret) : "job_data" \in DOMAIN last.ret[i]

\* C24 witness: get_jobs() has returned a document whose job_data is the
\* empty map and has left out a listed job whose document has no job_data.
HasJobDataKeyWitness ==
  /\ last.op = "get_jobs" /\ last.exc = "none"
  /\ \E i \in 1..Len(last.ret) : DOMAIN last.ret[i].job_data = {}
  /\ \E j \in Listed(exp) :
       /\ HasDoc(jobs, j)
       /\ "job_data" \notin DOMAIN DocOf(jobs, j)
       /\ \A i \in 1..Len(last.ret) : last.ret[i].id # j

\* ------------------------------------------------------------------------
\* Properties of the handling of damaged jobs
\* ------------------------------------------------------------------------
\* C25. One corrupt job never blocks the rest: whatever job directories lack
\* index.json or hold one that does not parse or is no JSON object,
\* rebuild_jobs_index() leaves an index that lists every well-formed job of
\* the experiment, and get_jobs() returns the documents of those jobs.
CorruptJobSkipped ==
  /\ last.op = "rebuild_jobs_index" => Matching(jobs) \subseteq Listed(exp)
  /\ (last.op = "get_jobs" /\ last.arg.type = "" /\ last.arg.status = "") =>
       /\ last.exc = "none"
       /\ \A j \in Matching(jobs) :
            "job_data" \in DOMAIN DocOf(jobs, j) =>
              \E i \in 1..Len(last.ret) : last.ret[i] = DocOf(jobs, j)

\* C26. Experiment.delete() does not raise when jobs.json lists a job whose
\* directory is gone: every other listed job that can be loaded is marked
\* DELETED and the experiment's directory is removed.
DeleteSkipsMissingJobs ==
  [][last'.op = "Experiment.delete" =>
       /\ last'.exc = "none"
       /\ ~exp'.exists
       /\ \A j \in Listed(exp) :
            HasDoc(jobs, j) =>
              /\ HasDoc(jobs', j)
              /\ DocOf(jobs', j) = dict_put(DocOf(jobs, j), "status", "DELETED")
    ]_<<last.op, exp, jobs>>

\* C26 witness: Experiment.delete() found jobs 1 and 2 listed, the directory
\* of job 1 is gone, job 2 is marked DELETED and the experiment is removed.
DeleteSkipsMissingJobsWitness ==
  /\ last.op = "Experiment.delete"
  /\ last.arg.listed = <<1, 2>>
  /\ ~jobs[1].exists
  /\ HasDoc(jobs, 2)
  /\ DocOf(jobs, 2).status = "DELETED"
  /\ ~exp.exists

\* ------------------------------------------------------------------------
\* SpecField: the single-field updates of one job document
\* ------------------------------------------------------------------------
NextField ==
  \/ JobUpdateStatus
  \/ JobUpdateProgress
  \/ JobUpdateJobDataField

SpecField == InitLog /\ [][NextField]_vars

\* doc[key] is the value written, and every other field is as it was
OnlyFieldChanged(old, new, key, value) ==
  /\ DOMAIN new = DOMAIN old \cup {key}
  /\ new[key] = value
  /\ \A f \in DOMAIN old \ {key} : new[f] = old[f]

\* C27. Single-field updates keep the rest of the document: update_status
\* and update_progress change only the top-level field they write, and
\* update_job_data_field changes only its key of job_data, which it makes
\* when the document has none; every other top-level field and job_data key
\* keeps its value, and the call does not raise.
FieldUpdateFrame ==
  [][LET old == DocOf(jobs, TheJob)
         new == DocOf(jobs', TheJob)
     IN /\ last'.op \in {"update_status", "update_progress",
                         "update_job_data_field"} =>
             last'.exc = "none" /\ HasDoc(jobs', TheJob)
        /\ last'.op = "update_status" =>
             OnlyFieldChanged(old, new, "status", last'.arg.status)
        /\ last'.op = "update_progress" =>
             OnlyFieldChanged(old, new, "progress", last'.arg.progress)
        /\ last'.op = "update_job_data_field" =>
             /\ DOMAIN new = DOMAIN old \cup {"job_data"}
             /\ \A f \in DOMAIN old \ {"job_data"} : new[f] = old[f]
             /\ OnlyFieldChanged(dict_get(old, "job_data", EmptyDoc),
                                 new.job_data, last'.arg.key, last'.arg.value)
    ]_<<last.op, jobs>>

\* C27 witness: update_job_data_field has written the only key of job_data
\* next to another one written before, and the status and the progress
\* written earlier are still there.
FieldUpdateFrameWitness ==
  /\ last.op = "update_job_data_field"
  /\ last.arg.key = "output_file_path"
  /\ DOMAIN DocOf(jobs, TheJob).job_data = {"note", "output_file_path"}
  /\ DocOf(jobs, TheJob).job_data.note = "y"
  /\ DocOf(jobs, TheJob).status = "RUNNING"
  /\ DocOf(jobs, TheJob).progress = 50

\* ------------------------------------------------------------------------
\* Properties of Job.create and get_log_path
\* ------------------------------------------------------------------------
\* C28. A job freshly created by Job.create(id) is in the initial state: its
\* directory and index.json exist, and the document has the id, status
\* NOT_STARTED, progress 0, an empty experiment_id and a job_data map.
FreshJob ==
  (last.op = "Job.create" /\ last.exc = "none") =>
    /\ jobs[TheJob].exists
    /\ path_exists(jobs[TheJob].index)
    /\ HasDoc(jobs, TheJob)
    /\ DocOf(jobs, TheJob).id = TheJob
    /\ DocOf(jobs, TheJob).status = "NOT_STARTED"
    /\ DocOf(jobs, TheJob).progress = 0
    /\ DocOf(jobs, TheJob).experiment_id = ""
    /\ "job_data" \in DOMAIN DocOf(jobs, TheJob)
    /\ DOMAIN DocOf(jobs, TheJob).job_data = {"output_file_path"}

\* C28 witness: Job.create has made the job, with its empty log file.
FreshJobWitness ==
  /\ last.op = "Job.create" /\ last.exc = "none"
  /\ jobs[TheJob].exists /\ jobs[TheJob].log
  /\ DocOf(jobs, TheJob).type = "REMOTE"

\* C29. get_log_path() returns the path stored in job_data.output_file_path
\* whenever that is a string that is not empty after trimming, whether or
\* not the default log file exists, and the default path otherwise; it does
\* not raise and the file returned exists after the call.
OverrideWins ==
  last.op = "get_log_path" =>
    LET job_data == dict_get(last.arg.doc.d, "job_data", EmptyDoc)
        override_path == dict_get(job_data, "output_file_path", "")
    IN /\ last.exc = "none"
       /\ last.ret = IF strip(override_path) # "" THEN override_path
                     ELSE DefaultLog
       /\ log_exists(jobs[TheJob], files, last.ret)

\* ------------------------------------------------------------------------
\* SpecQueue: the queue of jobs and the times of their directories
\* ------------------------------------------------------------------------
\* a change of the entries of job directory j: it becomes the last changed
touch(stat, j) ==
  [stat EXCEPT !.changed = Append(SelectSeq(@, LAMBDA x : x # j), j)]

\* os.path.getctime(job_path), as a position in time: where the platform
\* keeps the creation time (Windows) the time the directory was made, else
\* (Unix) the time of the last change of its entries
getctime(stat, platform, j) ==
  LET times == IF platform = "nt" THEN stat.born ELSE stat.changed
  IN CHOOSE i \in 1..Len(times) : times[i] = j

\* Job.get_next_queued_job(): the document returned (None: NoValue) and the
\* job directories, which Job.get and get_json_data may complete
get_next_queued_job(J, stat, platform) ==
  LET job_data == [j \in DOMAIN J |->
        The({IF g.exc # "none"
             THEN [dir |-> g.dir, ret |-> NotADict, exc |-> g.exc]
             ELSE get_json_data(g.dir) :
             g \in {Job_get(J[j], entry_name(j))}})]
      queued_jobs == {j \in DOMAIN J :
                        /\ job_data[j].exc = "none"
                        /\ isinstance_dict(job_data[j].ret)
                        /\ dict_get(job_data[j].ret.d, "status", "") = "QUEUED"}
  IN [jobs |-> [j \in DOMAIN J |-> job_data[j].dir],
      ret |-> IF queued_jobs = {} THEN NoValue
              ELSE job_data[CHOOSE j \in queued_jobs :
                              \A o \in queued_jobs :
                                getctime(stat, platform, j) <=
                                getctime(stat, platform, o)].ret.d]

\* a faulty count_running_jobs: IN_PROGRESS counts as running
count_running_jobs_in_progress(J) ==
  LET job_data == [j \in DOMAIN J |->
        The({IF g.exc # "none"
             THEN [dir |-> g.dir, ret |-> NotADict, exc |-> g.exc]
             ELSE get_json_data(g.dir) :
             g \in {Job_get(J[j], entry_name(j))}})]
  IN [jobs |-> [j \in DOMAIN J |-> job_data[j].dir],
      ret |-> Cardinality({j \in DOMAIN J :
                /\ job_data[j].exc = "none"
                /\ isinstance_dict(job_data[j].ret)
                /\ dict_get(job_data[j].ret.d, "status", "") \in
                     {"RUNNING", "IN_PROGRESS"}})]

\* Job.count_running_jobs(): the count and the job directories, which
\* Job.get and get_json_data may complete; an entry that cannot be loaded
\* or holds no object is passed over by the except clause
count_running_jobs(J) ==
  LET job_data == [j \in DOMAIN J |->
        The({IF g.exc # "none"
             THEN [dir |-> g.dir, ret |-> NotADict, exc |-> g.exc]
             ELSE get_json_data(g.dir) :
             g \in {Job_get(J[j], entry_name(j))}})]
  IN [jobs |-> [j \in DOMAIN J |-> job_data[j].dir],
      ret |-> Cardinality({j \in DOMAIN J :
                /\ job_data[j].exc = "none"
                /\ isinstance_dict(job_data[j].ret)
                /\ dict_get(job_data[j].ret.d, "status", "") = "RUNNING"})]

\* what the calls of SpecQueue leave alone
notQueue ==
  <<rootExists, dir, pre, written, crashVars, exp, sessVars, files>>

\* experiment.create_job(): the new directory is the last made and changed
QueueCreateJob ==
  /\ largest_numeric_subdir(jobs) < MaxJobs
  /\ \E r \in {create_job(jobs, ExpId)} :
       /\ jobs' = r.jobs
       /\ jobstat' = [jobstat EXCEPT !.born = Append(@, r.ret),
                                     !.changed = Append(@, r.ret)]
       /\ last' = CalledExp("create_job", NoValue, r.exc, r.ret)
  /\ UNCHANGED notQueue

\* Job.get(j).update_status(st) of a job that exists: index.json is
\* rewritten in place, the entries of the directory stay
QueueUpdateStatus ==
  \E j \in JobIds, st \in {"QUEUED", "RUNNING"} :
    /\ jobs[j].exists
    /\ \E r \in {and_then(Job_get(jobs[j], j),
                           LAMBDA x : update_status(x, st))} :
         /\ jobs' = [jobs EXCEPT ![j] = r.dir]
         /\ last' = CalledExp("update_status", [job |-> j, status |-> st],
                              r.exc, NoValue)
    /\ UNCHANGED <<jobstat, notQueue>>

\* dirs.get_job_artifacts_dir(j) of a job that exists: os.makedirs adds the
\* entry artifacts to the job directory unless it is there
GetJobArtifactsDir ==
  \E j \in JobIds :
    /\ jobs[j].exists
    /\ jobstat' = IF j \in jobstat.artifacts THEN jobstat
                  ELSE [touch(jobstat, j) EXCEPT !.artifacts = @ \cup {j}]
    /\ last' = CalledExp("get_job_artifacts_dir", [job |-> j], "none", NoValue)
    /\ UNCHANGED <<jobs, notQueue>>

\* Job.get_next_queued_job(), on either kind of platform
GetNextQueuedJob ==
  \E platform \in {"posix", "nt"} :
    \E r \in {get_next_queued_job(jobs, jobstat, platform)} :
      /\ jobs' = r.jobs
      /\ last' = CalledExp("get_next_queued_job", [platform |-> platform],
                           "none", r.ret)
      /\ UNCHANGED <<jobstat, notQueue>>

\* Job.count_running_jobs()
CountRunningJobs ==
  \E r \in {count_running_jobs(jobs)} :
    /\ jobs' = r.jobs
    /\ last' = CalledExp("count_running_jobs", NoValue, "none", r.ret)
    /\ UNCHANGED <<jobstat, notQueue>>

\* the jobs root as a scheduler finds it: each job directory missing, without
\* index.json, with an index.json that does not parse, does not decode or is
\* no object, or with the document of a job in some status; the directories
\* were made in the order of their ids and not changed since
InitQueue ==
  /\ \E found \in [JobIds -> {"none", "bare", "garbage", "undecodable",
                              "list", "RUNNING", "IN_PROGRESS"}] :
       jobs = [i \in 0..MaxJobs |->
         IF i = 0 \/ found[i] = "none" THEN NoJobDir
         ELSE IF found[i] \in {"RUNNING", "IN_PROGRESS"}
         THEN [NoJobDir EXCEPT
                 !.exists = TRUE, !.log = TRUE,
                 !.index = json_dump(Dict(dict_put(Job_default_json(i),
                                                   "status", found[i])))]
         ELSE [NoJobDir EXCEPT
                 !.exists = TRUE,
                 !.index = IF found[i] = "bare" THEN Absent
                           ELSE IF found[i] = "garbage" THEN Garbage
                           ELSE IF found[i] = "undecodable" THEN Undecodable
                           ELSE json_dump(NotADict)]]
  /\ \E made \in {SelectSeq([i \in 1..MaxJobs |-> i],
                             LAMBDA i : jobs[i].exists)} :
       jobstat = [born |-> made, changed |-> made, artifacts |-> {}]
  /\ files = [p \in {DefaultLog, OverridePath} |->
                IF p = DefaultLog THEN LogText(<<>>) ELSE Absent]
  /\ exp = NoExpDir
  /\ last = NoCall
  /\ pre = [root |-> TRUE, dir |-> NoDir]
  /\ rootExists = TRUE
  /\ dir = NoDir
  /\ written = NoWrite
  /\ mig = [pc |-> "idle"]
  /\ dir0 = NoDir
  /\ crashes = 0
  /\ lab = NoLab
  /\ callers = NoCallers

NextQueue ==
  \/ QueueCreateJob
  \/ QueueUpdateStatus
  \/ GetJobArtifactsDir
  \/ GetNextQueuedJob
  \/ CountRunningJobs

SpecQueue == InitQueue /\ [][NextQueue]_vars

\* C30. get_next_queued_job() returns the document of the job whose
\* directory was made first among the jobs with status QUEUED, and None when
\* no job is QUEUED; a job in any other status is never returned.
OldestQueuedFirst ==
  last.op = "get_next_queued_job" =>
    LET queued == {j \in JobIds :
                     HasDoc(jobs, j) /\ DocOf(jobs, j).status = "QUEUED"}
    IN IF queued = {} THEN last.ret = NoValue
       ELSE \E j \in queued :
              /\ last.ret = DocOf(jobs, j)
              /\ \A o \in queued :
                   getctime(jobstat, "nt", j) <= getctime(jobstat, "nt", o)

\* ------------------------------------------------------------------------
\* C31
\* ------------------------------------------------------------------------
\* the job directories whose stored status is RUNNING
RunningJobs(J) ==
  {j \in DOMAIN J :
     HasDoc(J, j) /\ dict_get(DocOf(J, j), "status", "") = "RUNNING"}

\* C31: count_running_jobs() does not raise and returns exactly the number
\* of job directories whose stored status is RUNNING: a job in any other
\* status and a job whose metadata cannot be read add nothing
CountsRunningJobs ==
  last.op = "count_running_jobs" =>
    /\ last.exc = "none"
    /\ last.ret = Cardinality(RunningJobs(jobs))

\* one job is RUNNING, another directory holds metadata that cannot be read
\* as a job document, and the count is 1
CountsRunningJobsWitness ==
  /\ last.op = "count_running_jobs"
  /\ last.ret = 1
  /\ \E j \in JobIds : jobs[j].exists /\ ~HasDoc(jobs, j)

SoftDelete ==
  [][/\ (last'.op = "Job.delete" /\ jobs[last'.arg.job].exists) =>
          LET j == last'.arg.job IN
          /\ last'.exc = "none"
          /\ HasDoc(jobs, j) /\ HasDoc(jobs', j)
          /\ OnlyFieldChanged(DocOf(jobs, j), DocOf(jobs', j),
                              "status", "DELETED")
          /\ DOMAIN DocOf(jobs', j) = DOMAIN DocOf(jobs, j)
          /\ jobs'[j] = [jobs[j] EXCEPT !.index = jobs'[j].index]
          /\ \A o \in DOMAIN jobs \ {j} : jobs'[o] = jobs[o]
          /\ Job_get(jobs'[j], j) = [dir |-> jobs'[j], exc |-> "none"]
     /\ last'.op = "create_job" =>
          /\ ~jobs[last'.ret].exists
          /\ \A j \in JobIds :
               jobs[j].exists => jobs'[j] = jobs[j] /\ j # last'.ret
    ]_<<last.op, jobs>>

\* job 1 of the experiment, which was RUNNING, has just been deleted: its
\* directory, its log and its experiment_id are still there
SoftDeleteWitness ==
  /\ last.op = "Job.delete"
  /\ last.exc = "none"
  /\ last.arg.job = 1
  /\ jobs[1].exists /\ jobs[1].log
  /\ DocOf(jobs, 1).status = "DELETED"
  /\ DocOf(jobs, 1).experiment_id = ExpId
  /\ HasDoc(jobs, 2)

\* ------------------------------------------------------------------------
\* SpecSess: the calls of SpecJob in a workspace with jobs of earlier sessions
\* ------------------------------------------------------------------------
\* the calls of SpecJob in a workspace where the directory of TheJob is found
\* missing, damaged or left by an earlier session
InitSess == InitQueue /\ \A j \in JobIds \ {TheJob} : ~jobs[j].exists

SpecSess == InitSess /\ [][NextJob]_vars

\* the operations of Lab that need a session
SessionOps == {"Lab.update_progress", "Lab.finish", "Lab.error"}

\* C34: an operation of Lab that needs a session, called while no init() has
\* returned successfully, raises RuntimeError, also after an init() that
\* failed
SessionRequired ==
  (last.op \in SessionOps /\ ~lab.ready) => last.exc = "RuntimeError"

\* ------------------------------------------------------------------------
\* SpecMig: two concurrent get_json_data() calls on one resource directory
\* ------------------------------------------------------------------------
\* a caller outside get_json_data
IdleCaller ==
  [pc |-> "idle", file |-> FIndex, data |-> NoValue, listed |-> {},
   ret |-> NoValue]

\* what the steps of SpecMig leave alone
notMig ==
  <<rootExists, last, pre, written, mig, crashes, expVars, lab, fsVars>>

\* a resource directory as the snapshot-writing generation left it: snapshot
\* files, latest.txt naming one of them or missing, index.json there or not
InitMig ==
  /\ \E i \in {Absent, json_dump(Dict(_default_json(ResId)))},
        present \in (SUBSET TS) \ {{}} :
       \E l \in {PAbsent} \cup {PName(FSnap(t)) : t \in present} :
         dir = [exists |-> TRUE, index |-> i,
                snaps |-> [t \in TS |->
                             IF t \in present
                             THEN json_dump(Dict(SnapDoc(t))) ELSE Absent],
                bad |-> Absent, latest |-> l]
  /\ dir0 = dir
  /\ callers = [c \in Callers |-> IdleCaller]
  /\ mig = [pc |-> "idle"]
  /\ crashes = 0
  /\ lab = NoLab
  /\ InitFs
  /\ rootExists = TRUE
  /\ last = NoCall
  /\ pre = [root |-> TRUE, dir |-> NoDir]
  /\ written = NoWrite
  /\ jobs = <<>>
  /\ exp = NoDir

\* lines 139-186: the early returns and the choice of latest_file
GjdBegin(c) ==
  /\ callers[c].pc = "idle"
  /\ callers' = [callers EXCEPT ![c] =
       IF already_migrated(dir) \/ latest_file(dir) = PAbsent
       THEN [@ EXCEPT !.pc = "read"]
       ELSE [@ EXCEPT !.pc = "load", !.file = latest_file(dir).file]]
  /\ UNCHANGED <<dir, dir0, notMig>>

\* lines 189-192: os.path.exists(latest_file), open and json.load of it; a
\* file that is gone ends the migration
GjdLoad(c) ==
  /\ callers[c].pc = "load"
  /\ \E f \in {FileAt(dir, callers[c].file)} :
       callers' = [callers EXCEPT ![c] =
         IF LoadOk(f)
         THEN [@ EXCEPT !.pc = "open", !.data = json_load(f)]
         ELSE [@ EXCEPT !.pc = "read"]]
  /\ UNCHANGED <<dir, dir0, notMig>>

\* line 195: open(index_file, "w") leaves an empty index.json
GjdOpen(c) ==
  /\ callers[c].pc = "open"
  /\ dir' = [dir EXCEPT !.index = Garbage]
  /\ callers' = [callers EXCEPT ![c].pc = "dump"]
  /\ UNCHANGED <<dir0, notMig>>

\* lines 196-199: json.dump(data, f), and os.listdir for the clean-up loop
GjdDump(c) ==
  /\ callers[c].pc = "dump"
  /\ dir' = [dir EXCEPT !.index = json_dump(callers[c].data)]
  /\ callers' = [callers EXCEPT
       ![c].pc = "clean",
       ![c].listed = {FSnap(t) : t \in StampsPresent(dir)}]
  /\ UNCHANGED <<dir0, notMig>>

\* lines 199-201: os.remove of one listed file; the FileNotFoundError of a
\* file the other caller removed ends the migration (lines 206-208)
GjdRemove(c) ==
  /\ callers[c].pc = "clean"
  /\ \E f \in callers[c].listed :
       IF path_exists(FileAt(dir, f))
       THEN /\ dir' = [dir EXCEPT !.snaps[f.ts] = Absent]
            /\ callers' = [callers EXCEPT ![c].listed = @ \ {f}]
       ELSE /\ callers' = [callers EXCEPT ![c].pc = "read", ![c].listed = {}]
            /\ UNCHANGED dir
  /\ UNCHANGED <<dir0, notMig>>

\* lines 203-204: the loop is over, latest.txt is removed
GjdUnlinkLatest(c) ==
  /\ callers[c].pc = "clean"
  /\ callers[c].listed = {}
  /\ dir' = [dir EXCEPT !.latest = PAbsent]
  /\ callers' = [callers EXCEPT ![c].pc = "read"]
  /\ UNCHANGED <<dir0, notMig>>

\* lines 95-101: open and json.load of index.json; FileNotFoundError and
\* JSONDecodeError give {}
GjdRead(c) ==
  /\ callers[c].pc = "read"
  /\ callers' = [callers EXCEPT
       ![c].pc = "done",
       ![c].ret = IF LoadOk(dir.index) THEN json_load(dir.index)
                  ELSE Dict(EmptyDoc)]
  /\ UNCHANGED <<dir, dir0, notMig>>

NextMig ==
  \E c \in Callers :
    \/ GjdBegin(c)
    \/ GjdLoad(c)
    \/ GjdOpen(c)
    \/ GjdDump(c)
    \/ GjdRemove(c)
    \/ GjdUnlinkLatest(c)
    \/ GjdRead(c)

SpecMig == InitMig /\ [][NextMig]_vars

\* the document of the snapshot with the greatest timestamp in d
NewestDoc(d) ==
  json_load(FileAt(d, latest_by_timestamp(d).file))

\* both callers have returned
BothReturned == \A c \in Callers : callers[c].pc = "done"

\* C35: once two concurrent get_json_data() calls on a snapshot-layout
\* resource have both returned, index.json holds the document of the snapshot
\* that was the latest before either started, and both calls returned it
MigrationsConverge ==
  BothReturned =>
    /\ dir.index = json_dump(NewestDoc(dir0))
    /\ \A c \in Callers : callers[c].ret = NewestDoc(dir0)

\* ------------------------------------------------------------------------
\* C36
\* ------------------------------------------------------------------------
\* latest.txt names a snapshot file that is there
NamesSnapshot(d) ==
  \E t \in StampsPresent(d) : d.latest = PName(FSnap(t))

\* latest.txt names a file of the directory that is there
NamesFile(d) ==
  d.latest.p = "name" /\ path_exists(FileAt(d, d.latest.file))

LabJobData == dict_get(DocOf(jobs, lab.job), "job_data", EmptyDoc)

\* C37: after a Lab.finish() or Lab.error() call that returned, the job's
\* job_data.status is "FAILED" if and only if its job_data.completion_status
\* is "failed"
CompletionConsistent ==
  (last.op \in {"Lab.finish", "Lab.error"} /\ last.exc = "none") =>
    (dict_get(LabJobData, "status", "") = "FAILED"
       <=> dict_get(LabJobData, "completion_status", "") = "failed")

\* ------------------------------------------------------------------------
\* SpecFin: Lab.finish and Lab.error statement by statement
\* ------------------------------------------------------------------------
\* statement n of Lab.finish(message, score)
Lab_finish_step(d, n, message, score) ==
  IF n = 1 THEN update_progress(d, 100)
  ELSE IF n = 2 THEN update_status(d, "COMPLETE")
  ELSE IF n = 3 THEN update_job_data_field(d, "completion_status", "success")
  ELSE IF n = 4 THEN update_job_data_field(d, "completion_details", message)
  ELSE update_job_data_field(d, "score", score)

\* statement n of Lab.error(message)
Lab_error_step(d, n, message) ==
  IF n = 1 THEN update_status(d, "COMPLETE")
  ELSE IF n = 2 THEN update_job_data_field(d, "completion_status", "failed")
  ELSE IF n = 3 THEN update_job_data_field(d, "completion_details", message)
  ELSE update_job_data_field(d, "status", "FAILED")

\* what the steps of SpecFin leave alone
notFin == <<rootExists, dir, pre, written, crashVars, exp, lab, fsVars>>

\* two processes have attached their Lab to TheJob, which lab.init made
InitFin ==
  /\ jobs = Lab_init_new_job([i \in 0..MaxJobs |-> NoJobDir], ExpId).jobs
  /\ exp = Experiment_new(NoExpDir, ExpId)
  /\ lab = [experiment |-> ExpId, job |-> TheJob, ready |-> TRUE]
  /\ callers = NoCallers
  /\ last = NoCall
  /\ pre = [root |-> TRUE, dir |-> NoDir]
  /\ rootExists = TRUE
  /\ dir = NoDir
  /\ written = NoWrite
  /\ mig = [pc |-> "idle"]
  /\ dir0 = NoDir
  /\ crashes = 0
  /\ InitFs

\* the next statement of lab.finish(message, score) of caller c, the first
\* one when c is in no call; the call ends with its last statement or with
\* an exception
LabFinishStep(c) ==
  \E m \in {"ok", "boom"}, sc \in {NoScore, [acc |-> 1]} :
    \E at \in {IF callers[c].pc = "idle"
                THEN [pc |-> "Lab.finish", step |-> 1,
                      message |-> m, score |-> sc]
                ELSE callers[c]} :
      /\ at.pc = "Lab.finish"
      /\ (callers[c].pc = "idle" \/ (m = at.message /\ sc = at.score))
      /\ ~_ensure_initialized(lab)
      /\ \E r \in {Lab_finish_step(jobs[lab.job], at.step, at.message,
                                     at.score)} :
           /\ jobs' = [jobs EXCEPT ![lab.job] = r.dir]
           /\ \E over \in {\/ r.exc # "none"
                            \/ at.step = 5
                            \/ (at.step = 4 /\ at.score = NoScore)} :
                /\ callers' = [callers EXCEPT ![c] =
                      IF over THEN [pc |-> "idle"]
                      ELSE [at EXCEPT !.step = @ + 1]]
                /\ last' = IF over
                           THEN CalledExp("Lab.finish",
                                  [details |-> at.message, score |-> at.score],
                                  r.exc, NoValue)
                           ELSE last
      /\ UNCHANGED notFin

\* the next statement of lab.error(message) of caller c
LabErrorStep(c) ==
  \E m \in {"ok", "boom"} :
    \E at \in {IF callers[c].pc = "idle"
                THEN [pc |-> "Lab.error", step |-> 1, message |-> m]
                ELSE callers[c]} :
      /\ at.pc = "Lab.error"
      /\ (callers[c].pc = "idle" \/ m = at.message)
      /\ ~_ensure_initialized(lab)
      /\ \E r \in {Lab_error_step(jobs[lab.job], at.step, at.message)} :
           /\ jobs' = [jobs EXCEPT ![lab.job] = r.dir]
           /\ \E over \in {r.exc # "none" \/ at.step = 4} :
                /\ callers' = [callers EXCEPT ![c] =
                      IF over THEN [pc |-> "idle"]
                      ELSE [at EXCEPT !.step = @ + 1]]
                /\ last' = IF over
                           THEN CalledExp("Lab.error",
                                  [details |-> at.message], r.exc, NoValue)
                           ELSE last
      /\ UNCHANGED notFin

NextFin ==
  \E c \in Callers :
    \/ LabFinishStep(c)
    \/ LabErrorStep(c)

SpecFin == InitFin /\ [][NextFin]_vars

\* C38: in every state a reader can find the document of the job in while
\* Lab.finish() or Lab.error() runs, a job whose top-level status is COMPLETE
\* has job_data.completion_status "success" or "failed"
CompletionObservedWhole ==
  (HasDoc(jobs, TheJob) /\ DocOf(jobs, TheJob).status = "COMPLETE") =>
    dict_get(dict_get(DocOf(jobs, TheJob), "job_data", EmptyDoc),
             "completion_status", "") \in {"success", "failed"}

\* ------------------------------------------------------------------------
\* C39
\* ------------------------------------------------------------------------
\* C39: after Lab.init(experiment_id) has returned, the document of the
\* current job holds the id of the current experiment as experiment_id and
\* the status RUNNING, whether the job was created or adopted
InitBindsJob ==
  (last.op = "Lab.init" /\ last.exc = "none") =>
    /\ HasDoc(jobs, lab.job)
    /\ dict_get(DocOf(jobs, lab.job), "experiment_id", "") = lab.experiment
    /\ dict_get(DocOf(jobs, lab.job), "status", "") = "RUNNING"

\* ------------------------------------------------------------------------
\* C40
\* ------------------------------------------------------------------------
\* C40: rebuild_jobs_index() changes no job document; a second call that
\* follows with no change to a job document in between leaves jobs.json as
\* the first call left it; and the content a call writes is the same
\* whatever jobs.json held before the call
RebuildIgnoresOldIndex ==
  [][last'.op = "rebuild_jobs_index" =>
       /\ jobs' = jobs
       /\ last.op = "rebuild_jobs_index" => exp' = exp
       /\ exp' # exp =>
            \A c \in FoundIndexes :
              rebuild_jobs_index([exp EXCEPT !.jobsjson = c], jobs,
                                 ExpId).jobsjson = exp'.jobsjson
    ]_<<last.op, exp, jobs>>

\* a rebuild has listed job 1, the only job of the experiment beside a job
\* of another experiment, in a jobs.json that listed no job or both jobs
RebuildIgnoresOldIndexWitness ==
  /\ last.op = "rebuild_jobs_index"
  /\ Matching(jobs) = {1}
  /\ Listed(exp) = {1}
  /\ HasDoc(jobs, 2)

====
